---------------------------- MODULE Spec2Model ----------------------------
(***************************************************************************)
(* Gap detection and gap repair of ImprovedTopologyChecker                 *)
(* (improved_topology_utils.py), and the validity and overlap checks of    *)
(* shp_field_checker_gui.py.                                               *)
(*                                                                         *)
(* Geometries are axis-aligned: a Polygon is a rectangle [x1,x2]x[y1,y2],  *)
(* a LineString is a horizontal or vertical segment (a rectangle that is   *)
(* degenerate in one dimension).  Coordinates are integers.  A distance is *)
(* kept as its square (Dist2), which is exact on integer coordinates; the  *)
(* code's comparison 0 < d < tolerance is 0 < d^2 < tolerance^2.           *)
(* Python list positions are 0-based and are kept 0-based in the records.  *)
(* STRtree.query returns geometries, as the detection loop expects when it *)
(* looks each candidate up with list.index.  The line geometry made by     *)
(* _create_gap_geometry and the constant 'type' entry of a gap record are  *)
(* left out of the records.  Whether a geometry is valid, and what         *)
(* make_valid does to it, is an attribute of the geometry value            *)
(* (validity).                                                             *)
(***************************************************************************)
EXTENDS Integers, Sequences, FiniteSets, TLC

VARIABLES
    geometries,        \* the caller's geometry list
    tolerance,         \* self.tolerance (also passed as the call's tolerance)
    self_geometries,   \* self.geometries: the filtered list of the last index build
    spatial_index,     \* self.spatial_index: "None" or the sequence of indexed geometries
    batch_size,        \* batch_size of the last detection call
    env,               \* what the geometry library did during the last call
    path,              \* which path produced the last detection result
    gaps,              \* gap list: result of detection / argument of repair
    repair_method,     \* method name of the last repair call
    repair_env,        \* per-gap outcome of the library operations in the last repair call
    repaired_geometries, \* first component of the value returned by repair_topology_gaps
    repair_stats,      \* second component
    pc,                \* "idle", "detected", "to_repair", "repaired", "raised",
                       \* "to_check", "checked", "overlaps_checked"
    auto_fix,          \* auto_fix of the last check_geometry_validity call
    invalid_geometries, \* first component of the value returned by check_geometry_validity
    fixed_geometries,  \* second component
    runs,              \* number of check_geometry_validity calls made on the list
    overlaps,          \* value returned by check_topology_overlaps
    file,              \* the geometries stored in the source file
    backup,            \* the file named <source>.backup: "absent" or its geometries
    multi,             \* a geometry handed to the geometry-type normalizer
    normalized,        \* what the normalizer returned for it
    calls,             \* number of detection and repair calls made on the checker
    queried,           \* the index the last detection call queried, "None" if it queried none
    check_button,      \* state of the GUI's check button
    edit_buttons,      \* are the batch repair buttons on the window
    threads,           \* the background runs that have not completed
    dir_files,         \* the files of the input directory, each the list of its geometries
    summary,           \* the summary returned by a batch repair
    progress,          \* the (current, total) pairs passed to the progress callback
    ops                \* the per-file repair calls made, in order

checks == <<auto_fix, invalid_geometries, fixed_geometries, runs, overlaps>>
files == <<file, backup>>
norm == <<multi, normalized>>
session == <<calls, queried>>
gui == <<check_button, edit_buttons, threads>>
batch == <<dir_files, summary, progress, ops>>
extras == <<file, backup, multi, normalized, calls, queried, check_button, edit_buttons,
            threads, dir_files, summary, progress, ops>>

vars == <<geometries, tolerance, self_geometries, spatial_index, batch_size, env,
          path, gaps, repair_method, repair_env, repaired_geometries, repair_stats, pc,
          auto_fix, invalid_geometries, fixed_geometries, runs, overlaps,
          file, backup, multi, normalized, calls, queried, check_button, edit_buttons,
          threads, dir_files, summary, progress, ops>>

-----------------------------------------------------------------------------
(* Bounds *)
MaxLen == 4          \* longest geometry list
MaxBatch == 4        \* largest batch_size
MaxGaps == 2         \* longest caller-made gap list handed to repair

-----------------------------------------------------------------------------
(* Geometry values *)

\* validity: "valid"; or invalid and make_valid returns a valid geometry
\* ("fixable"), returns an invalid one ("unfixable") or raises ("raises")
Geom(k, a1, b1, a2, b2) ==
    [kind |-> k, is_empty |-> FALSE, x1 |-> a1, y1 |-> b1, x2 |-> a2, y2 |-> b2,
     made |-> "input", validity |-> "valid"]

NoneGeom  == [kind |-> "None", is_empty |-> FALSE, x1 |-> 0, y1 |-> 0, x2 |-> 0, y2 |-> 0,
              made |-> "input", validity |-> "valid"]
EmptyGeom == [kind |-> "Polygon", is_empty |-> TRUE, x1 |-> 0, y1 |-> 0, x2 |-> 0, y2 |-> 0,
              made |-> "input", validity |-> "valid"]

\* three squares in a row, 2 apart; a line along their top edges; a line
\* standing 2 above that line, over the middle square
S0 == Geom("Polygon", 0, 0, 4, 4)
S1 == Geom("Polygon", 6, 0, 10, 4)
S2 == Geom("Polygon", 12, 0, 16, 4)
L1 == Geom("LineString", 0, 4, 16, 4)
L2 == Geom("LineString", 8, 6, 8, 14)

GeomPool == {S0, S1, S2, L1, L2, NoneGeom, EmptyGeom}
Tolerances == {2, 4}

IsNone(g) == g.kind = "None"
\* `geom is None or geom.is_empty`
IsNullOrEmpty(g) == IsNone(g) \/ g.is_empty

Min(S) == CHOOSE m \in S : \A n \in S : m <= n
Max2(a, b) == IF a >= b THEN a ELSE b
Min2(a, b) == IF a <= b THEN a ELSE b
Sq(n) == n * n

\* separation of the intervals [a1,a2] and [b1,b2]
Gap1(a1, a2, b1, b2) == IF b1 > a2 THEN b1 - a2 ELSE IF a1 > b2 THEN a1 - b2 ELSE 0

\* geom1.distance(geom2), squared
Dist2(g, h) == Sq(Gap1(g.x1, g.x2, h.x1, h.x2)) + Sq(Gap1(g.y1, g.y2, h.y1, h.y2))

\* do the interiors meet in one dimension (a degenerate interval is a point,
\* a proper one is open)
Inner1(a1, a2, b1, b2) ==
    IF a1 = a2 /\ b1 = b2 THEN a1 = b1
    ELSE IF a1 = a2 THEN b1 < a1 /\ a1 < b2
    ELSE IF b1 = b2 THEN a1 < b1 /\ b1 < a2
    ELSE Max2(a1, b1) < Min2(a2, b2)

InteriorsIntersect(g, h) ==
    Inner1(g.x1, g.x2, h.x1, h.x2) /\ Inner1(g.y1, g.y2, h.y1, h.y2)

\* geom1.intersects(geom2)
Intersects(g, h) == Dist2(g, h) = 0

\* geom1.touches(geom2): they meet, their interiors do not
Touches(g, h) == Intersects(g, h) /\ ~InteriorsIntersect(g, h)

\* geom.buffer(r): the extent of the buffer is the extent grown by r on every
\* side; its rounded corners are squared off; the buffer of an empty geometry
\* is an empty polygon
Buffer(g, r) ==
    IF g.is_empty THEN [g EXCEPT !.kind = "Polygon", !.made = "buffer"]
    ELSE [kind |-> "Polygon", is_empty |-> FALSE,
          x1 |-> g.x1 - r, y1 |-> g.y1 - r, x2 |-> g.x2 + r, y2 |-> g.y2 + r,
          made |-> "buffer", validity |-> "valid"]

\* the points of geom.boundary that decide a distance: the two end points of
\* a line; for a polygon the ring is handled in RingDist2
EndPoints(g) == {<<g.x1, g.y1>>, <<g.x2, g.y2>>}

PointGeom(p) == Geom("Point", p[1], p[2], p[1], p[2])

Inside(p, b) == b.x1 < p[1] /\ p[1] < b.x2 /\ b.y1 < p[2] /\ p[2] < b.y2

\* distance (squared) of a point to the ring of rectangle b
PointRingDist2(p, b) ==
    IF Inside(p, b)
    THEN Sq(Min({p[1] - b.x1, b.x2 - p[1], p[2] - b.y1, b.y2 - p[2]}))
    ELSE Dist2(PointGeom(p), b)

Within(a, b) == b.x1 < a.x1 /\ a.x2 < b.x2 /\ b.y1 < a.y1 /\ a.y2 < b.y2

\* distance (squared) between the rings of two rectangles
RingDist2(a, b) ==
    IF Dist2(a, b) > 0 THEN Dist2(a, b)
    ELSE IF Within(a, b)
         THEN Sq(Min({a.x1 - b.x1, b.x2 - a.x2, a.y1 - b.y1, b.y2 - a.y2}))
    ELSE IF Within(b, a)
         THEN Sq(Min({b.x1 - a.x1, a.x2 - b.x2, b.y1 - a.y1, a.y2 - b.y2}))
    ELSE 0

\* geom1.boundary.distance(geom2.boundary), squared
BoundaryDist2(g, h) ==
    IF g.kind = "Polygon" /\ h.kind = "Polygon" THEN RingDist2(g, h)
    ELSE IF g.kind = "Polygon" THEN Min({PointRingDist2(p, g) : p \in EndPoints(h)})
    ELSE IF h.kind = "Polygon" THEN Min({PointRingDist2(p, h) : p \in EndPoints(g)})
    ELSE Min({Sq(p[1] - q[1]) + Sq(p[2] - q[2]) : p \in EndPoints(g), q \in EndPoints(h)})

\* hasattr(geom, 'exterior')
HasExterior(g) == g.kind = "Polygon"

\* `0 < distance < tolerance`
InGapRange_closed(d2, tol) == 0 < d2 /\ d2 <= Sq(tol)
InGapRange(d2, tol) == 0 < d2 /\ d2 < Sq(tol)

\* _are_adjacent; raises = one of its geometric operations raises
AreAdjacent_strict(g, h, tol, raises) ==
    IF raises THEN FALSE
    ELSE \/ Touches(g, h)
         \/ /\ Intersects(Buffer(g, tol), Buffer(h, tol))
            /\ BoundaryDist2(g, h) < Sq(tol)
         \/ /\ HasExterior(g) /\ HasExterior(h)
            /\ RingDist2(g, h) < Sq(tol)
AreAdjacent(g, h, tol, raises) ==
    IF raises THEN TRUE
    ELSE \/ Touches(g, h)
         \/ /\ Intersects(Buffer(g, tol), Buffer(h, tol))
            /\ BoundaryDist2(g, h) < Sq(tol)
         \/ /\ HasExterior(g) /\ HasExterior(h)
            /\ RingDist2(g, h) < Sq(tol)

-----------------------------------------------------------------------------
(* Spatial index *)

RECURSIVE Filter(_)
\* [geom for geom in geometries if geom is not None and not geom.is_empty]
Filter(geoms) ==
    IF geoms = <<>> THEN <<>>
    ELSE IF IsNullOrEmpty(Head(geoms)) THEN Filter(Tail(geoms))
    ELSE <<Head(geoms)>> \o Filter(Tail(geoms))

\* build_spatial_index: the new values of self.geometries and
\* self.spatial_index.  fails = the STRtree constructor raises (self.geometries
\* is assigned before it is called).  The tree holds the filtered list.
BuildSpatialIndex(geoms, fails) ==
    [geometries |-> Filter(geoms),
     spatial_index |-> IF fails THEN <<"None">> ELSE <<"STRtree", Filter(geoms)>>]

IndexIsNone(idx) == idx[1] = "None"

RECURSIVE Reverse(_)
Reverse(s) == IF s = <<>> THEN <<>> ELSE Reverse(Tail(s)) \o <<Head(s)>>

RECURSIVE QueryItems(_, _)
QueryItems(items, q) ==
    IF items = <<>> THEN <<>>
    ELSE IF Intersects(Head(items), q) THEN <<Head(items)>> \o QueryItems(Tail(items), q)
    ELSE QueryItems(Tail(items), q)

\* self.spatial_index.query(buffer_geom): the indexed geometries whose extent
\* meets the extent of the query geometry; the tree fixes the order of the
\* result, desc = it is the reverse of the insertion order
Query(idx, q, desc) ==
    IF desc THEN Reverse(QueryItems(idx[2], q)) ELSE QueryItems(idx[2], q)

\* self.geometries.index(geom2): the first position holding a geometry equal
\* to geom2, -1 for ValueError
IndexOf(geoms, g) ==
    IF \E k \in 1..Len(geoms) : geoms[k] = g
    THEN Min({k \in 1..Len(geoms) : geoms[k] = g}) - 1
    ELSE -1

-----------------------------------------------------------------------------
(* Gap detection *)

GapInfo(i, j, g1, g2) ==
    [feature1 |-> i, feature2 |-> j, distance2 |-> Dist2(g1, g2),
     geometry1 |-> g1, geometry2 |-> g2]

\* body of `for geom2 in candidates`: the records appended for one candidate
CandidateStep(geoms, i, geom2, tol, adjRaises) ==
    LET geom1 == geoms[i + 1]
        j == IndexOf(geoms, geom2)
    IN  IF j < 0 THEN <<>>
        ELSE IF j <= i \/ IsNullOrEmpty(geom2) THEN <<>>
        ELSE IF InGapRange(Dist2(geom1, geom2), tol) /\ AreAdjacent(geom1, geom2, tol, adjRaises)
             THEN <<GapInfo(i, j, geom1, geom2)>>
        ELSE <<>>

RECURSIVE CandidateLoop(_, _, _, _, _)
CandidateLoop(geoms, i, cands, tol, adjRaises) ==
    IF cands = <<>> THEN <<>>
    ELSE CandidateStep(geoms, i, Head(cands), tol, adjRaises)
         \o CandidateLoop(geoms, i, Tail(cands), tol, adjRaises)

\* buffer_geom = geom1.buffer(tolerance * 2)
QueryRegion_unbuffered(geom1, tol) == geom1
QueryRegion(geom1, tol) == Buffer(geom1, tol * 2)

RECURSIVE IndexedLoop(_, _, _, _, _, _)
\* `for i, geom1 in enumerate(self.geometries)` from position i on
IndexedLoop(geoms, idx, i, tol, desc, adjRaises) ==
    IF i >= Len(geoms) THEN <<>>
    ELSE (IF IsNullOrEmpty(geoms[i + 1]) THEN <<>>
          ELSE CandidateLoop(geoms, i, Query(idx, QueryRegion(geoms[i + 1], tol), desc),
                             tol, adjRaises))
         \o IndexedLoop(geoms, idx, i + 1, tol, desc, adjRaises)

RECURSIVE BruteInner(_, _, _, _)
\* `for j, geom2 in enumerate(geometries[i+1:], i+1)` from position j on
BruteInner(geoms, i, j, tol) ==
    IF j >= Len(geoms) THEN <<>>
    ELSE (IF IsNullOrEmpty(geoms[j + 1]) THEN <<>>
          ELSE IF InGapRange(Dist2(geoms[i + 1], geoms[j + 1]), tol)
               THEN <<GapInfo(i, j, geoms[i + 1], geoms[j + 1])>>
          ELSE <<>>)
         \o BruteInner(geoms, i, j + 1, tol)

RECURSIVE BruteOuter(_, _, _)
BruteOuter(geoms, i, tol) ==
    IF i >= Len(geoms) THEN <<>>
    ELSE (IF IsNullOrEmpty(geoms[i + 1]) THEN <<>> ELSE BruteInner(geoms, i, i + 1, tol))
         \o BruteOuter(geoms, i + 1, tol)

\* _check_gaps_brute_force
CheckGapsBruteForce(geoms, tol) == BruteOuter(geoms, 0, tol)

\* gap['feature1'] += start_idx; gap['feature2'] += start_idx
ShiftGaps_none(gs, start_idx) == gs
ShiftGaps(gs, start_idx) ==
    [k \in 1..Len(gs) |->
        [gs[k] EXCEPT !.feature1 = @ + start_idx, !.feature2 = @ + start_idx]]

\* geometries[start_idx:end_idx]
Slice(geoms, start_idx, end_idx) == SubSeq(geoms, start_idx + 1, end_idx)

TotalBatches(n, bs) == (n + bs - 1) \div bs

RECURSIVE BatchLoop(_, _, _, _)
\* `for batch_idx in range(total_batches)` from batch_idx on
BatchLoop(geoms, tol, bs, batch_idx) ==
    IF batch_idx >= TotalBatches(Len(geoms), bs) THEN <<>>
    ELSE LET start_idx == batch_idx * bs
             end_idx == Min2(start_idx + bs, Len(geoms))
         IN  ShiftGaps(CheckGapsBruteForce(Slice(geoms, start_idx, end_idx), tol), start_idx)
             \o BatchLoop(geoms, tol, bs, batch_idx + 1)

\* _check_gaps_batch_processing
CheckGapsBatchProcessing(geoms, tol, bs) == BatchLoop(geoms, tol, bs, 0)

\* What the library may do during one detection call
DetectEnvs == {"none", "build_fails", "loop_raises", "adjacent_raises", "query_desc"}

\* `len(geometries) > batch_size`
TakesBatchPath(geoms, bs) == Len(geoms) > bs

\* check_topology_gaps_optimized: the returned list, the path that produced
\* it and the checker's fields after the call
CheckTopologyGapsOptimized_lazy(geoms, tol, bs, e, old_geoms, old_idx) ==
    IF TakesBatchPath(geoms, bs)
    THEN [result |-> CheckGapsBatchProcessing(geoms, tol, bs), path |-> "batch",
          geometries |-> old_geoms, spatial_index |-> old_idx]
    ELSE LET b == IF IndexIsNone(old_idx) THEN BuildSpatialIndex(geoms, e = "build_fails")
                  ELSE [geometries |-> old_geoms, spatial_index |-> old_idx]
         IN  IF IndexIsNone(b.spatial_index) \/ e = "loop_raises"
             THEN [result |-> CheckGapsBruteForce(geoms, tol), path |-> "brute",
                   geometries |-> b.geometries, spatial_index |-> b.spatial_index]
             ELSE [result |-> IndexedLoop(b.geometries, b.spatial_index, 0, tol,
                                          e = "query_desc", e = "adjacent_raises"),
                   path |-> "indexed",
                   geometries |-> b.geometries, spatial_index |-> b.spatial_index]
CheckTopologyGapsOptimized_nofallback(geoms, tol, bs, e, old_geoms, old_idx) ==
    IF TakesBatchPath(geoms, bs)
    THEN [result |-> CheckGapsBatchProcessing(geoms, tol, bs), path |-> "batch",
          geometries |-> old_geoms, spatial_index |-> old_idx]
    ELSE LET b == BuildSpatialIndex(geoms, e = "build_fails")
         IN  IF IndexIsNone(b.spatial_index)
             THEN [result |-> <<>>, path |-> "brute",
                   geometries |-> b.geometries, spatial_index |-> b.spatial_index]
             ELSE [result |-> IndexedLoop(b.geometries, b.spatial_index, 0, tol,
                                          e = "query_desc", e = "adjacent_raises"),
                   path |-> IF e = "loop_raises" THEN "brute" ELSE "indexed",
                   geometries |-> b.geometries, spatial_index |-> b.spatial_index]
CheckTopologyGapsOptimized(geoms, tol, bs, e, old_geoms, old_idx) ==
    IF TakesBatchPath(geoms, bs)
    THEN [result |-> CheckGapsBatchProcessing(geoms, tol, bs), path |-> "batch",
          geometries |-> old_geoms, spatial_index |-> old_idx]
    ELSE LET b == BuildSpatialIndex(geoms, e = "build_fails")
         IN  IF IndexIsNone(b.spatial_index) \/ e = "loop_raises"
             THEN [result |-> CheckGapsBruteForce(geoms, tol), path |-> "brute",
                   geometries |-> b.geometries, spatial_index |-> b.spatial_index]
             ELSE [result |-> IndexedLoop(b.geometries, b.spatial_index, 0, tol,
                                          e = "query_desc", e = "adjacent_raises"),
                   path |-> "indexed",
                   geometries |-> b.geometries, spatial_index |-> b.spatial_index]

-----------------------------------------------------------------------------
(* Gap repair *)

RepairMethods == {"buffer_merge", "snap_vertices", "extend_boundary"}

\* Python list indexing: positions -len .. len-1 exist, others raise IndexError
InRange(geoms, idx) == -Len(geoms) <= idx /\ idx < Len(geoms)
Pos(geoms, idx) == IF idx < 0 THEN Len(geoms) + idx + 1 ELSE idx + 1
At(geoms, idx) == geoms[Pos(geoms, idx)]
SetAt(geoms, idx, v) == [geoms EXCEPT ![Pos(geoms, idx)] = v]

Area(g) == IF g.is_empty THEN 0 ELSE (g.x2 - g.x1) * (g.y2 - g.y1)

\* floor of the square root
Sqrt(n) == CHOOSE r \in 0..n : r * r <= n /\ n < (r + 1) * (r + 1)

\* unary_union([a, b]) followed by the geom_type branches and simplify: a
\* Polygon when the two shapes meet (kept as the extent of the union), the
\* largest part of the MultiPolygon otherwise (max returns the first of equal
\* parts); simplify does not move the corners of a rectangle
MergedGeometry(a, b) ==
    LET m == IF a.is_empty THEN b
             ELSE IF b.is_empty THEN a
             ELSE IF Intersects(a, b)
                  THEN [a EXCEPT !.x1 = Min2(a.x1, b.x1), !.y1 = Min2(a.y1, b.y1),
                                 !.x2 = Max2(a.x2, b.x2), !.y2 = Max2(a.y2, b.y2)]
             ELSE IF Area(b) > Area(a) THEN b ELSE a
    IN  [m EXCEPT !.made = "merged"]

\* snap(geom1, geom2, tolerance): the sides of geom1 that lie within the
\* tolerance of the facing side of geom2 move onto it
Snap(g, h, tol) ==
    LET mv(c, t) == IF c # t /\ Sq(c - t) <= Sq(tol) THEN t ELSE c
    IN  IF g.is_empty \/ h.is_empty THEN g
        ELSE [g EXCEPT !.x1 = mv(g.x1, h.x2), !.x2 = mv(g.x2, h.x1),
                       !.y1 = mv(g.y1, h.y2), !.y2 = mv(g.y2, h.y1), !.made = "snapped"]

\* make_valid(geom), when it does not raise
MakeValid(g) ==
    [g EXCEPT !.made = "made_valid",
              !.validity = IF @ = "fixable" THEN "valid" ELSE @]

Detail(gap, method, ok) == [gap |-> gap, method |-> method, success |-> ok]

\* the `except Exception` branch of the three per-gap loops
GapFailed_uncounted(st, gap, method) ==
    [st EXCEPT !.stats.details = Append(@, Detail(gap, method, FALSE))]
GapFailed(st, gap, method) ==
    [st EXCEPT !.stats.failed_count = @ + 1,
               !.stats.details = Append(@, Detail(gap, method, FALSE))]

\* does the try block raise before it changes anything: a position that does
\* not exist, a None geometry (no buffer method, not accepted by snap), or
\* the library raising
GapRaises_lenient(geoms, gap, outcome) ==
    \/ ~InRange(geoms, gap.feature1)
    \/ ~InRange(geoms, gap.feature2)
    \/ outcome = "raise"
GapRaises(geoms, gap, outcome) ==
    \/ ~InRange(geoms, gap.feature1)
    \/ ~InRange(geoms, gap.feature2)
    \/ IsNone(At(geoms, gap.feature1))
    \/ IsNone(At(geoms, gap.feature2))
    \/ outcome = "raise"

\* one pass of the loop body of _repair_by_buffer_merge (radius tolerance / 2)
\* and _repair_by_extend_boundary (radius distance / 2 + tolerance / 2);
\* st = [geometries, stats]
MergeStep_swapped(st, gap, radius, method, outcome) ==
    IF GapRaises(st.geometries, gap, outcome) THEN GapFailed(st, gap, method)
    ELSE LET geom1 == At(st.geometries, gap.feature1)
             geom2 == At(st.geometries, gap.feature2)
             repaired_geom == MergedGeometry(Buffer(geom1, radius), Buffer(geom2, radius))
         IN  [geometries |-> SetAt(SetAt(st.geometries, gap.feature2, repaired_geom),
                                   gap.feature1, NoneGeom),
              stats |-> [st.stats EXCEPT !.repaired_count = @ + 1,
                                         !.details = Append(@, Detail(gap, method, TRUE))]]
MergeStep(st, gap, radius, method, outcome) ==
    IF GapRaises(st.geometries, gap, outcome) THEN GapFailed(st, gap, method)
    ELSE LET geom1 == At(st.geometries, gap.feature1)
             geom2 == At(st.geometries, gap.feature2)
             repaired_geom == MergedGeometry(Buffer(geom1, radius), Buffer(geom2, radius))
         IN  [geometries |-> SetAt(SetAt(st.geometries, gap.feature1, repaired_geom),
                                   gap.feature2, NoneGeom),
              stats |-> [st.stats EXCEPT !.repaired_count = @ + 1,
                                         !.details = Append(@, Detail(gap, method, TRUE))]]

\* one pass of the loop body of _repair_by_snap_vertices
SnapStep_partial(st, gap, tol, outcome) ==
    IF GapRaises(st.geometries, gap, outcome) THEN GapFailed(st, gap, "snap_vertices")
    ELSE LET geom1 == At(st.geometries, gap.feature1)
             geom2 == At(st.geometries, gap.feature2)
             snapped_geom1 == Snap(geom1, geom2, tol)
             snapped_geom2 == Snap(geom2, geom1, tol)
         IN  IF outcome = "ok"
             THEN [geometries |-> SetAt(SetAt(st.geometries, gap.feature1, snapped_geom1),
                                        gap.feature2, snapped_geom2),
                   stats |-> [st.stats EXCEPT !.repaired_count = @ + 1,
                                  !.details = Append(@, Detail(gap, "snap_vertices", TRUE))]]
             ELSE IF outcome = "fixable"
             THEN [geometries |-> SetAt(SetAt(st.geometries, gap.feature1, MakeValid(snapped_geom1)),
                                        gap.feature2, MakeValid(snapped_geom2)),
                   stats |-> [st.stats EXCEPT !.repaired_count = @ + 1]]
             ELSE [geometries |-> SetAt(st.geometries, gap.feature1, MakeValid(snapped_geom1)),
                   stats |-> [st.stats EXCEPT !.failed_count = @ + 1]]
SnapStep(st, gap, tol, outcome) ==
    IF GapRaises(st.geometries, gap, outcome) THEN GapFailed(st, gap, "snap_vertices")
    ELSE LET geom1 == At(st.geometries, gap.feature1)
             geom2 == At(st.geometries, gap.feature2)
             snapped_geom1 == Snap(geom1, geom2, tol)
             snapped_geom2 == Snap(geom2, geom1, tol)
         IN  IF outcome = "ok"
             THEN [geometries |-> SetAt(SetAt(st.geometries, gap.feature1, snapped_geom1),
                                        gap.feature2, snapped_geom2),
                   stats |-> [st.stats EXCEPT !.repaired_count = @ + 1,
                                  !.details = Append(@, Detail(gap, "snap_vertices", TRUE))]]
             ELSE IF outcome = "fixable"
             THEN [geometries |-> SetAt(SetAt(st.geometries, gap.feature1, MakeValid(snapped_geom1)),
                                        gap.feature2, MakeValid(snapped_geom2)),
                   stats |-> [st.stats EXCEPT !.repaired_count = @ + 1]]
             ELSE [st EXCEPT !.stats.failed_count = @ + 1]

\* extension_distance = distance / 2 + self.tolerance / 2
ExtensionDistance(gap, tol) == Sqrt(gap.distance2) \div 2 + tol \div 2

RepairStep(st, gap, tol, method, outcome) ==
    IF method = "buffer_merge" THEN MergeStep(st, gap, tol \div 2, method, outcome)
    ELSE IF method = "snap_vertices" THEN SnapStep(st, gap, tol, outcome)
    ELSE MergeStep(st, gap, ExtensionDistance(gap, tol), method, outcome)

RECURSIVE RepairLoop_abort(_, _, _, _, _, _)
RepairLoop_abort(st, gs, k, tol, method, outcomes) ==
    IF k > Len(gs) THEN st
    ELSE LET nx == RepairStep(st, gs[k], tol, method, outcomes[k])
         IN  IF nx.stats.failed_count > st.stats.failed_count THEN nx
             ELSE RepairLoop_abort(nx, gs, k + 1, tol, method, outcomes)

RECURSIVE RepairLoop(_, _, _, _, _, _)
\* `for gap in gaps` of the chosen method, from the k-th gap on
RepairLoop(st, gs, k, tol, method, outcomes) ==
    IF k > Len(gs) THEN st
    ELSE RepairLoop(RepairStep(st, gs[k], tol, method, outcomes[k]),
                    gs, k + 1, tol, method, outcomes)

NewStats == [repaired_count |-> 0, failed_count |-> 0, details |-> <<>>]

\* repair_topology_gaps: the caller's list after the call, the two returned
\* values, and whether the call raised instead of returning.  A returned
\* dictionary without a 'details' or an 'error' key has has_details or
\* has_error FALSE.
RepairTopologyGaps_inplace(geoms, gs, tol, method, outcomes) ==
    IF gs = <<>>
    THEN [geometries |-> geoms, repaired_geometries |-> geoms, raised |-> FALSE,
          repair_stats |-> [repaired_count |-> 0, failed_count |-> 0, method |-> method,
                            has_details |-> FALSE, details |-> <<>>, has_error |-> FALSE]]
    ELSE IF method \in RepairMethods
    THEN LET st == RepairLoop([geometries |-> geoms, stats |-> NewStats], gs, 1, tol,
                              method, outcomes)
         IN  [geometries |-> st.geometries, repaired_geometries |-> st.geometries,
              raised |-> FALSE,
              repair_stats |-> [repaired_count |-> st.stats.repaired_count,
                                failed_count |-> st.stats.failed_count, method |-> method,
                                has_details |-> TRUE, details |-> st.stats.details,
                                has_error |-> FALSE]]
    ELSE [geometries |-> geoms, repaired_geometries |-> geoms, raised |-> FALSE,
          repair_stats |-> [repaired_count |-> 0, failed_count |-> Len(gs), method |-> method,
                            has_details |-> TRUE, details |-> <<>>, has_error |-> TRUE]]
RepairTopologyGaps(geoms, gs, tol, method, outcomes) ==
    IF gs = <<>>
    THEN [geometries |-> geoms, repaired_geometries |-> geoms, raised |-> FALSE,
          repair_stats |-> [repaired_count |-> 0, failed_count |-> 0, method |-> method,
                            has_details |-> FALSE, details |-> <<>>, has_error |-> FALSE]]
    ELSE IF method \in RepairMethods
    THEN LET st == RepairLoop([geometries |-> geoms, stats |-> NewStats], gs, 1, tol,
                              method, outcomes)
         IN  [geometries |-> geoms, repaired_geometries |-> st.geometries, raised |-> FALSE,
              repair_stats |-> [repaired_count |-> st.stats.repaired_count,
                                failed_count |-> st.stats.failed_count, method |-> method,
                                has_details |-> TRUE, details |-> st.stats.details,
                                has_error |-> FALSE]]
    ELSE \* ValueError raised in the try block and caught by its except clause
         [geometries |-> geoms, repaired_geometries |-> geoms, raised |-> FALSE,
          repair_stats |-> [repaired_count |-> 0, failed_count |-> Len(gs), method |-> method,
                            has_details |-> TRUE, details |-> <<>>, has_error |-> TRUE]]

-----------------------------------------------------------------------------
(* Calls *)

\* all sequences over S of length at most n
SeqsUpTo(S, n) == UNION {[1..k -> S] : k \in 0..n}

NoStats == [repaired_count |-> 0, failed_count |-> 0, method |-> "none",
            has_details |-> FALSE, details |-> <<>>, has_error |-> FALSE]

\* no check_geometry_validity or check_topology_overlaps call made yet
NoChecks ==
    /\ auto_fix = FALSE
    /\ invalid_geometries = <<>>
    /\ fixed_geometries = <<>>
    /\ runs = 0
    /\ overlaps = <<>>

\* no file opened yet
NoFiles ==
    /\ file = <<>>
    /\ backup = <<"absent">>

\* no geometry normalized yet
NoNorm ==
    /\ multi = [kind |-> "None", parts |-> <<>>]
    /\ normalized = [kind |-> "None", parts |-> <<>>]

\* no call made yet on the checker
NoSession ==
    /\ calls = 0
    /\ queried = <<"None">>

\* the main window as create_widgets leaves it, nothing running
NoGui ==
    /\ check_button = "normal"
    /\ edit_buttons = FALSE
    /\ threads = <<>>

NoSummary == [success |-> FALSE, total_files |-> 0, processed_files |-> 0,
              failed_files |-> 0, total_gaps |-> 0, repaired_gaps |-> 0, results |-> <<>>]

\* no batch repair started yet
NoBatch ==
    /\ dir_files = <<>>
    /\ summary = NoSummary
    /\ progress = <<>>
    /\ ops = <<>>

NoExtras == NoFiles /\ NoNorm /\ NoSession /\ NoGui /\ NoBatch

\* A checker as __init__ leaves it, and a geometry list to check
Init ==
    /\ geometries \in SeqsUpTo(GeomPool, MaxLen)
    /\ tolerance \in Tolerances
    /\ self_geometries = <<>>
    /\ spatial_index = <<"None">>
    /\ batch_size = 0
    /\ env = "none"
    /\ path = "none"
    /\ gaps = <<>>
    /\ repair_method = "none"
    /\ repair_env = <<>>
    /\ repaired_geometries = <<>>
    /\ repair_stats = NoStats
    /\ pc = "idle"
    /\ NoChecks
    /\ NoExtras

\* can the library behave as e during a call on geoms with batch size bs:
\* the batch path uses no index, and the loop raises only if it is entered
EnvPossible(geoms, bs, e) ==
    \/ e = "none"
    \/ ~TakesBatchPath(geoms, bs) /\ e = "build_fails"
    \/ ~TakesBatchPath(geoms, bs) /\ e \in {"loop_raises", "adjacent_raises", "query_desc"}
                                  /\ Filter(geoms) # <<>>

\* gaps = checker.check_topology_gaps_optimized(geometries, tolerance, bs)
Detect(bs, e) ==
    /\ pc = "idle"
    /\ EnvPossible(geometries, bs, e)
    /\ LET r == CheckTopologyGapsOptimized(geometries, tolerance, bs, e,
                                           self_geometries, spatial_index)
       IN  /\ gaps' = r.result
           /\ path' = r.path
           /\ self_geometries' = r.geometries
           /\ spatial_index' = r.spatial_index
    /\ batch_size' = bs
    /\ env' = e
    /\ pc' = "detected"
    /\ UNCHANGED <<geometries, tolerance, repair_method, repair_env,
                   repaired_geometries, repair_stats, checks, extras>>

Next == \E bs \in 1..MaxBatch, e \in DetectEnvs : Detect(bs, e)

Spec == Init /\ [][Next]_vars

-----------------------------------------------------------------------------
(* Repair calls on gap lists made by the caller *)

RepairLists == {<<S0, S1, S2>>, <<S0, NoneGeom, S2>>, <<EmptyGeom, S1, S0>>}

\* positions a caller-made gap names: the last one by a negative index, all
\* positions of a list of three, and one past its end
GapPairs == {<<-1, 0>>} \cup ((0..2) \X (1..3))

CallerGap(p) == [feature1 |-> p[1], feature2 |-> p[2], distance2 |-> 4,
                 geometry1 |-> NoneGeom, geometry2 |-> NoneGeom]

RepairMethodNames == RepairMethods \cup {"unknown"}

\* what the library does for one gap: "ok", it raises, or (snap only) the
\* snapped geometries are invalid and make_valid does or does not mend them
Outcomes(method) ==
    IF method = "snap_vertices" THEN {"ok", "fixable", "unfixable", "raise"}
    ELSE IF method \in RepairMethods THEN {"ok", "raise"}
    ELSE {"ok"}

InitRepair ==
    /\ geometries \in RepairLists
    /\ tolerance = 4
    /\ gaps \in {[k \in DOMAIN ps |-> CallerGap(ps[k])] : ps \in SeqsUpTo(GapPairs, MaxGaps)}
    /\ self_geometries = <<>>
    /\ spatial_index = <<"None">>
    /\ batch_size = 0
    /\ env = "none"
    /\ path = "none"
    /\ repair_method = "none"
    /\ repair_env = <<>>
    /\ repaired_geometries = <<>>
    /\ repair_stats = NoStats
    /\ pc = "to_repair"
    /\ NoChecks
    /\ NoExtras

\* repaired_geometries, repair_stats = checker.repair_topology_gaps(geometries, gaps, method)
Repair(method, outcomes) ==
    /\ pc = "to_repair"
    /\ LET r == RepairTopologyGaps(geometries, gaps, tolerance, method, outcomes)
       IN  /\ geometries' = r.geometries
           /\ repaired_geometries' = r.repaired_geometries
           /\ repair_stats' = r.repair_stats
           /\ pc' = IF r.raised THEN "raised" ELSE "repaired"
    /\ repair_method' = method
    /\ repair_env' = outcomes
    /\ UNCHANGED <<tolerance, self_geometries, spatial_index, batch_size, env, path, gaps,
                   checks, extras>>

NextRepair ==
    \E method \in RepairMethodNames :
        \E outcomes \in [1..Len(gaps) -> Outcomes(method)] : Repair(method, outcomes)

SpecRepair == InitRepair /\ [][NextRepair]_vars

-----------------------------------------------------------------------------
(* Geometry validity check, src/shp_field_checker_gui.py *)

MaxRuns == 2

\* geometries that are not valid: make_valid mends the first, returns a
\* still invalid geometry for the second and raises for the third
Invalid(v) == [Geom("Polygon", 0, 0, 4, 4) EXCEPT !.validity = v]
B1 == Invalid("fixable")
B2 == Invalid("unfixable")
B3 == Invalid("raises")
ValidityPool == {S0, B1, B2, B3, NoneGeom, EmptyGeom}

\* geom.is_valid
IsValid(g) == g.validity = "valid"
\* make_valid(geom) raises
MakeValidRaises(g) == g.validity = "raises"

IssueRecord(i, sev) == [feature |-> i, severity |-> sev]

\* `geometries[i] = fixed_geom; fixed_geometries.append(i)`;
\* st = [geometries, invalid_geometries, fixed_geometries]
Replaced_unstored(st, i, fixed_geom) ==
    [st EXCEPT !.fixed_geometries = Append(@, i)]
Replaced(st, i, fixed_geom) ==
    [st EXCEPT !.geometries[i + 1] = fixed_geom,
               !.fixed_geometries = Append(@, i)]

Reported(st, i, sev) ==
    [st EXCEPT !.invalid_geometries = Append(@, IssueRecord(i, sev))]

\* one pass of `for i, geom in enumerate(geometries)`
ValidityStep_greedy(st, i, af) ==
    LET geom == st.geometries[i + 1]
    IN  IF IsNone(geom) THEN Reported(st, i, "critical")
        ELSE IF geom.is_empty THEN Reported(st, i, "critical")
        ELSE IF IsValid(geom) THEN st
        ELSE IF MakeValidRaises(geom) THEN Reported(st, i, "critical")
        ELSE LET fixed_geom == MakeValid(geom)
             IN  IF af THEN Replaced(st, i, fixed_geom)
                 ELSE IF IsValid(fixed_geom) THEN Reported(st, i, "fixable")
                 ELSE Reported(st, i, "critical")
ValidityStep(st, i, af) ==
    LET geom == st.geometries[i + 1]
    IN  IF IsNone(geom) THEN Reported(st, i, "critical")
        ELSE IF geom.is_empty THEN Reported(st, i, "critical")
        ELSE IF IsValid(geom) THEN st
        ELSE IF MakeValidRaises(geom) THEN Reported(st, i, "critical")
        ELSE LET fixed_geom == MakeValid(geom)
             IN  IF IsValid(fixed_geom)
                 THEN IF af THEN Replaced(st, i, fixed_geom)
                      ELSE Reported(st, i, "fixable")
                 ELSE Reported(st, i, "critical")

RECURSIVE ValidityLoop_abort(_, _, _)
ValidityLoop_abort(st, i, af) ==
    IF i >= Len(st.geometries) THEN st
    ELSE IF MakeValidRaises(st.geometries[i + 1]) /\ ~IsNullOrEmpty(st.geometries[i + 1])
         THEN st
         ELSE ValidityLoop_abort(ValidityStep(st, i, af), i + 1, af)

RECURSIVE ValidityLoop(_, _, _)
\* the loop from position i on
ValidityLoop(st, i, af) ==
    IF i >= Len(st.geometries) THEN st
    ELSE ValidityLoop(ValidityStep(st, i, af), i + 1, af)

\* check_geometry_validity(geometries, auto_fix): the caller's list after
\* the call and the two returned lists
CheckGeometryValidity_forced(geoms, af) ==
    ValidityLoop([geometries |-> geoms, invalid_geometries |-> <<>>,
                  fixed_geometries |-> <<>>], 0, TRUE)
CheckGeometryValidity(geoms, af) ==
    ValidityLoop([geometries |-> geoms, invalid_geometries |-> <<>>,
                  fixed_geometries |-> <<>>], 0, af)

\* a list of geometries read from a file, not yet checked
InitValidity ==
    /\ geometries \in SeqsUpTo(ValidityPool, MaxLen)
    /\ tolerance = 4
    /\ self_geometries = <<>>
    /\ spatial_index = <<"None">>
    /\ batch_size = 0
    /\ env = "none"
    /\ path = "none"
    /\ gaps = <<>>
    /\ repair_method = "none"
    /\ repair_env = <<>>
    /\ repaired_geometries = <<>>
    /\ repair_stats = NoStats
    /\ pc = "to_check"
    /\ NoChecks
    /\ NoExtras

\* invalid_geometries, fixed_geometries = check_geometry_validity(geometries, auto_fix=af)
CheckValidity(af) ==
    /\ pc \in {"to_check", "checked"}
    /\ runs < MaxRuns
    /\ LET r == CheckGeometryValidity(geometries, af)
       IN  /\ geometries' = r.geometries
           /\ invalid_geometries' = r.invalid_geometries
           /\ fixed_geometries' = r.fixed_geometries
    /\ auto_fix' = af
    /\ runs' = runs + 1
    /\ pc' = "checked"
    /\ UNCHANGED <<tolerance, self_geometries, spatial_index, batch_size, env, path, gaps,
                   repair_method, repair_env, repaired_geometries, repair_stats, overlaps,
                   extras>>

NextValidity == \E af \in BOOLEAN : CheckValidity(af)

SpecValidity == InitValidity /\ [][NextValidity]_vars

-----------------------------------------------------------------------------
(* Overlap check, src/shp_field_checker_gui.py *)

\* squares meeting S0 in a strip of area 8, in a corner of area 4 and lying
\* inside it; a line that runs on along L1
O1 == Geom("Polygon", 2, 0, 6, 4)
P4 == Geom("Polygon", 2, 2, 6, 6)
N1 == Geom("Polygon", 1, 1, 3, 3)
L3 == Geom("LineString", 8, 4, 20, 4)
OverlapPool == {S0, O1, P4, N1, L1, L3, NoneGeom, EmptyGeom}

\* number of directions a shape extends in: 2 for an area, 1 for a line
Dimension(g) == (IF g.x1 < g.x2 THEN 1 ELSE 0) + (IF g.y1 < g.y2 THEN 1 ELSE 0)

\* geom1.intersection(geom2)
Intersection(g, h) ==
    IF g.is_empty \/ h.is_empty \/ ~Intersects(g, h)
    THEN [EmptyGeom EXCEPT !.made = "intersection"]
    ELSE LET c == [g EXCEPT !.x1 = Max2(g.x1, h.x1), !.y1 = Max2(g.y1, h.y1),
                            !.x2 = Min2(g.x2, h.x2), !.y2 = Min2(g.y2, h.y2),
                            !.made = "intersection"]
         IN  [c EXCEPT !.kind = IF Dimension(c) = 2 THEN "Polygon"
                                 ELSE IF Dimension(c) = 1 THEN "LineString" ELSE "Point"]

SameExtent(g, h) == g.x1 = h.x1 /\ g.y1 = h.y1 /\ g.x2 = h.x2 /\ g.y2 = h.y2

\* geom1.overlaps(geom2): the two have the same dimension, their interiors
\* meet in a shape of that dimension, and that shape is neither of the two
Overlaps(g, h) ==
    /\ Dimension(g) = Dimension(h)
    /\ InteriorsIntersect(g, h)
    /\ Dimension(Intersection(g, h)) = Dimension(g)
    /\ ~SameExtent(Intersection(g, h), g)
    /\ ~SameExtent(Intersection(g, h), h)

\* `intersection.area > tolerance`
ExceedsTolerance_closed(area, tol) == area >= tol
ExceedsTolerance(area, tol) == area > tol

OverlapInfo(i, j, area) == [feature1 |-> i, feature2 |-> j, overlap_area |-> area]

RECURSIVE OverlapInner(_, _, _, _)
\* `for j, geom2 in enumerate(geometries[i+1:], i+1)`
OverlapInner(geoms, i, j, tol) ==
    IF j >= Len(geoms) THEN <<>>
    ELSE (IF IsNullOrEmpty(geoms[j + 1]) THEN <<>>
          ELSE IF /\ Overlaps(geoms[i + 1], geoms[j + 1])
                  /\ ExceedsTolerance(Area(Intersection(geoms[i + 1], geoms[j + 1])), tol)
               THEN <<OverlapInfo(i, j, Area(Intersection(geoms[i + 1], geoms[j + 1])))>>
          ELSE <<>>)
         \o OverlapInner(geoms, i, j + 1, tol)

RECURSIVE OverlapOuter(_, _, _)
\* `for i, geom1 in enumerate(geometries)`
OverlapOuter(geoms, i, tol) ==
    IF i >= Len(geoms) THEN <<>>
    ELSE (IF IsNullOrEmpty(geoms[i + 1]) THEN <<>> ELSE OverlapInner(geoms, i, i + 1, tol))
         \o OverlapOuter(geoms, i + 1, tol)

\* check_topology_overlaps(geometries, tolerance)
CheckTopologyOverlaps(geoms, tol) == OverlapOuter(geoms, 0, tol)

InitOverlap ==
    /\ geometries \in SeqsUpTo(OverlapPool, MaxLen)
    /\ tolerance \in Tolerances
    /\ self_geometries = <<>>
    /\ spatial_index = <<"None">>
    /\ batch_size = 0
    /\ env = "none"
    /\ path = "none"
    /\ gaps = <<>>
    /\ repair_method = "none"
    /\ repair_env = <<>>
    /\ repaired_geometries = <<>>
    /\ repair_stats = NoStats
    /\ pc = "to_check"
    /\ NoChecks
    /\ NoExtras

\* overlaps = check_topology_overlaps(geometries, tolerance)
CheckOverlaps ==
    /\ pc = "to_check"
    /\ overlaps' = CheckTopologyOverlaps(geometries, tolerance)
    /\ pc' = "overlaps_checked"
    /\ UNCHANGED <<geometries, tolerance, self_geometries, spatial_index, batch_size, env,
                   path, gaps, repair_method, repair_env, repaired_geometries, repair_stats,
                   auto_fix, invalid_geometries, fixed_geometries, runs, extras>>

NextOverlap == CheckOverlaps

SpecOverlap == InitOverlap /\ [][NextOverlap]_vars

-----------------------------------------------------------------------------
(* Repair of one file: auto_fix_geometry_in_file and                      *)
(* check_and_repair_gaps_in_file.  A file is the list of its geometries.  *)

MaxFeatures == 3

\* batch_size: int = 1000
DefaultBatchSize == 1000

FilePool == {S0, S1, S2, B1, B3, NoneGeom}

\* convert_geometry_types(gdf) on single-part geometries, which
\* convert_multipolygon returns as they are: the rows holding None or an
\* empty geometry are dropped
ConvertGeometryTypes(gdf) == Filter(gdf)

\* gdf[gdf.geometry.notna()]
NotNa(geoms) == SelectSeq(geoms, LAMBDA g : ~IsNone(g))

\* `geom is not None and not geom.is_valid`
NeedsFix(g) == ~IsNone(g) /\ ~IsValid(g)

\* the rows the loop replaces: make_valid returns and its result is valid
Mended(g) == NeedsFix(g) /\ ~MakeValidRaises(g) /\ IsValid(MakeValid(g))

\* the frame after `for idx, row in gdf.iterrows()`
FixedFrame(gdf) == [k \in 1..Len(gdf) |-> IF Mended(gdf[k]) THEN MakeValid(gdf[k]) ELSE gdf[k]]

Untouched(f, b, res) == [file |-> f, backup |-> b, result |-> res]

\* auto_fix_geometry_in_file (and auto_fix_geometry_file, the same code as a
\* function): the source file and its backup after the call, and the result;
\* backup_ok = gdf.to_file(backup_path) does not raise
AutoFixGeometryInFile(f, b, backup_ok) ==
    LET gdf == ConvertGeometryTypes(f)
        invalid_before == Len(SelectSeq(gdf, NeedsFix))
        fixed_count == Len(SelectSeq(gdf, Mended))
        fixed == FixedFrame(gdf)
    IN  IF gdf = <<>>
        THEN Untouched(f, b, [success |-> FALSE, fixed_count |-> 0, error_count |-> 0])
        ELSE IF invalid_before = 0
        THEN Untouched(f, b, [success |-> TRUE, fixed_count |-> 0, error_count |-> 0])
        ELSE IF fixed_count = 0
        THEN Untouched(f, b, [success |-> TRUE, fixed_count |-> 0,
                              error_count |-> invalid_before])
        ELSE IF ~backup_ok
        THEN Untouched(f, b, [success |-> FALSE, fixed_count |-> 0, error_count |-> 0])
        ELSE [file |-> fixed, backup |-> <<"file", fixed>>,
              result |-> [success |-> TRUE, fixed_count |-> fixed_count,
                          error_count |-> invalid_before - fixed_count]]

\* the gaps check_and_repair_gaps_in_file detects in the file
FileGaps(f, tol) ==
    CheckTopologyGapsOptimized(ConvertGeometryTypes(f), tol, DefaultBatchSize, "none",
                               <<>>, <<"None">>).result

\* check_and_repair_gaps_in_file with output_path = None: the source file and
\* its backup after the call, and the result dictionary (the keys that the
\* callers read; has_gaps_repaired = the key 'gaps_repaired' is present)
CheckAndRepairGapsInFile(f, b, tol, method, outcomes) ==
    LET gs == FileGaps(f, tol)
        r == RepairTopologyGaps(ConvertGeometryTypes(f), gs, tol, method, outcomes)
    IN  IF f = <<>>
        THEN Untouched(f, b, [success |-> FALSE, gaps_found |-> 0, repaired_count |-> 0,
                              failed_count |-> 0, has_gaps_repaired |-> FALSE])
        ELSE IF gs = <<>>
        THEN Untouched(f, b, [success |-> TRUE, gaps_found |-> 0, repaired_count |-> 0,
                              failed_count |-> 0, has_gaps_repaired |-> FALSE])
        ELSE [file |-> NotNa(r.repaired_geometries), backup |-> b,
              result |-> [success |-> TRUE, gaps_found |-> Len(gs),
                          repaired_count |-> r.repair_stats.repaired_count,
                          failed_count |-> r.repair_stats.failed_count,
                          has_gaps_repaired |-> FALSE]]

InitFile ==
    /\ file \in SeqsUpTo(FilePool, MaxFeatures)
    /\ backup = <<"absent">>
    /\ geometries = <<>>
    /\ tolerance = 4
    /\ self_geometries = <<>>
    /\ spatial_index = <<"None">>
    /\ batch_size = 0
    /\ env = "none"
    /\ path = "none"
    /\ gaps = <<>>
    /\ repair_method = "none"
    /\ repair_env = <<>>
    /\ repaired_geometries = <<>>
    /\ repair_stats = NoStats
    /\ pc = "file_ready"
    /\ NoChecks /\ NoNorm /\ NoSession /\ NoGui /\ NoBatch

\* result = inspector.auto_fix_geometry_in_file(file_path)
FixGeometryOfFile(backup_ok) ==
    /\ pc = "file_ready"
    /\ LET r == AutoFixGeometryInFile(file, backup, backup_ok)
       IN  /\ file' = r.file
           /\ backup' = r.backup
    /\ repair_method' = "make_valid"
    /\ pc' = "file_done"
    /\ UNCHANGED <<geometries, tolerance, self_geometries, spatial_index, batch_size, env,
                   path, gaps, repair_env, repaired_geometries, repair_stats, checks,
                   norm, session, gui, batch>>

\* result = check_and_repair_gaps_in_file(file_path, tolerance, 'buffer_merge')
FixGapsOfFile(outcomes) ==
    /\ pc = "file_ready"
    /\ LET r == CheckAndRepairGapsInFile(file, backup, tolerance, "buffer_merge", outcomes)
       IN  /\ file' = r.file
           /\ backup' = r.backup
    /\ gaps' = FileGaps(file, tolerance)
    /\ repair_method' = "buffer_merge"
    /\ repair_env' = outcomes
    /\ pc' = "file_done"
    /\ UNCHANGED <<geometries, tolerance, self_geometries, spatial_index, batch_size, env,
                   path, repaired_geometries, repair_stats, checks,
                   norm, session, gui, batch>>

NextFile ==
    \/ \E backup_ok \in BOOLEAN : FixGeometryOfFile(backup_ok)
    \/ \E outcomes \in [1..Len(FileGaps(file, tolerance)) -> {"ok", "raise"}] :
          FixGapsOfFile(outcomes)

SpecFile == InitFile /\ [][NextFile]_vars

-----------------------------------------------------------------------------
(* Geometry-type normalizer: GeometryEditorDialog.fix_geometry and         *)
(* convert_multipolygon.  A multi-part geometry is its type and the list   *)
(* of its parts; the geometries handed over are valid, and vertex snapping *)
(* returns a multi-part geometry as it is.                                 *)

MaxParts == 3

Multi(k, ps) == [kind |-> k, parts |-> ps]

\* polygons of area 1, 5 and 2; lines of length 2, 7 and 7; two points
A1 == Geom("Polygon", 0, 0, 1, 1)
A5 == Geom("Polygon", 2, 0, 7, 1)
A2 == Geom("Polygon", 8, 0, 10, 1)
K2 == Geom("LineString", 0, 2, 2, 2)
K7 == Geom("LineString", 0, 3, 7, 3)
K7v == Geom("LineString", 9, 2, 9, 9)
Pt0 == PointGeom(<<0, 0>>)
Pt1 == PointGeom(<<1, 1>>)

PartsOf(k) ==
    IF k = "MultiPolygon" THEN {A1, A5, A2}
    ELSE IF k = "MultiLineString" THEN {K2, K7, K7v}
    ELSE IF k = "MultiPoint" THEN {Pt0, Pt1}
    ELSE {A1, K2, K7, Pt0}

MultiKinds == {"MultiPolygon", "MultiLineString", "MultiPoint", "GeometryCollection"}
MultiPool == UNION {{Multi(k, ps) : ps \in SeqsUpTo(PartsOf(k), MaxParts)} : k \in MultiKinds}

\* geom.length: the perimeter of a polygon, the length of a line, 0 for a point
Length(g) ==
    IF g.kind = "Polygon" THEN 2 * ((g.x2 - g.x1) + (g.y2 - g.y1))
    ELSE (g.x2 - g.x1) + (g.y2 - g.y1)

\* hasattr(g, 'area'): every shapely geometry has the attribute, a line and
\* a point have area 0.0
HasArea(g) == g.kind \in {"Polygon", "LineString", "Point"}

\* `getattr(g, 'area', 0) if hasattr(g, 'area') else getattr(g, 'length', 0)`
PartSize(g) == IF HasArea(g) THEN Area(g) ELSE Length(g)

\* max(parts, key=f), and the loop `if size > max_size` started at -1: the
\* first of the parts of largest f
\* sizes[k] = the key of parts[k]
FirstMax(parts, sizes) ==
    parts[CHOOSE k \in 1..Len(parts) :
              /\ \A l \in 1..Len(parts) : sizes[l] <= sizes[k]
              /\ \A l \in 1..(k - 1) : sizes[l] < sizes[k]]

\* [g.area for g in parts], [g.length for g in parts] and the sizes the
\* collection loop compares
Areas(parts) == [k \in 1..Len(parts) |-> Area(parts[k])]
Lengths(parts) == [k \in 1..Len(parts) |-> Length(parts[k])]
PartSizes(parts) == [k \in 1..Len(parts) |-> PartSize(parts[k])]

\* the four type branches of fix_geometry, one after the other;
\* raises = reading the parts of the collection raises
Collected(geom, raises) ==
    IF geom.kind = "GeometryCollection" /\ ~raises /\ geom.parts # <<>>
    THEN FirstMax(geom.parts, PartSizes(geom.parts)) ELSE geom
LargestPolygon_first(geom) ==
    IF geom.kind = "MultiPolygon" /\ geom.parts # <<>> THEN geom.parts[1] ELSE geom
LargestPolygon(geom) ==
    IF geom.kind = "MultiPolygon" /\ geom.parts # <<>>
    THEN FirstMax(geom.parts, Areas(geom.parts)) ELSE geom
LongestLine(geom) ==
    IF geom.kind = "MultiLineString" /\ geom.parts # <<>>
    THEN FirstMax(geom.parts, Lengths(geom.parts)) ELSE geom
FirstPoint(geom) ==
    IF geom.kind = "MultiPoint" /\ geom.parts # <<>> THEN geom.parts[1] ELSE geom

\* fix_geometry(geom, tolerance) on a valid geometry
FixGeometry(geom, raises) == FirstPoint(LongestLine(LargestPolygon(Collected(geom, raises))))

\* convert_multipolygon(geom)
ConvertMultipolygon(geom) ==
    IF geom.kind = "MultiPolygon" /\ Len(geom.parts) > 0
    THEN FirstMax(geom.parts, Areas(geom.parts)) ELSE geom

InitNormalize ==
    /\ multi \in MultiPool
    /\ normalized = [kind |-> "None", parts |-> <<>>]
    /\ geometries = <<>>
    /\ tolerance = 4
    /\ self_geometries = <<>>
    /\ spatial_index = <<"None">>
    /\ batch_size = 0
    /\ env = "none"
    /\ path = "none"
    /\ gaps = <<>>
    /\ repair_method = "none"
    /\ repair_env = <<>>
    /\ repaired_geometries = <<>>
    /\ repair_stats = NoStats
    /\ pc = "to_normalize"
    /\ NoChecks /\ NoFiles /\ NoSession /\ NoGui /\ NoBatch

\* fixed_geom = self.fix_geometry(geom, tolerance)
FixGeometryCall(raises) ==
    /\ pc = "to_normalize"
    /\ raises => multi.kind = "GeometryCollection"
    /\ normalized' = FixGeometry(multi, raises)
    /\ env' = IF raises THEN "parts_raise" ELSE "none"
    /\ pc' = "normalized"
    /\ UNCHANGED <<geometries, tolerance, self_geometries, spatial_index, batch_size,
                   path, gaps, repair_method, repair_env, repaired_geometries, repair_stats,
                   checks, files, multi, session, gui, batch>>

\* gdf.geometry.apply(convert_multipolygon), one row
ConvertCall ==
    /\ pc = "to_normalize"
    /\ normalized' = ConvertMultipolygon(multi)
    /\ pc' = "converted"
    /\ UNCHANGED <<geometries, tolerance, self_geometries, spatial_index, batch_size, env,
                   path, gaps, repair_method, repair_env, repaired_geometries, repair_stats,
                   checks, files, multi, session, gui, batch>>

NextNormalize ==
    \/ \E raises \in BOOLEAN : FixGeometryCall(raises)
    \/ ConvertCall

SpecNormalize == InitNormalize /\ [][NextNormalize]_vars

-----------------------------------------------------------------------------
(* A sequence of detection and repair calls on one ImprovedTopologyChecker *)

MaxCalls == 3

SessionLists == {<<S0, S1, S2>>, <<S1, S0>>, <<NoneGeom, S0, S1>>}

\* the index that the calls `self.spatial_index.query(...)` of a detection
\* call use: self.spatial_index as it stands when the indexed loop is
\* entered; "None" when the call enters no indexed loop
QueriedIndex(r, e) ==
    IF r.path = "indexed" \/ (e = "loop_raises" /\ ~IndexIsNone(r.spatial_index))
    THEN r.spatial_index ELSE <<"None">>

InitSession ==
    /\ geometries \in SessionLists
    /\ tolerance = 4
    /\ self_geometries = <<>>
    /\ spatial_index = <<"None">>
    /\ batch_size = 0
    /\ env = "none"
    /\ path = "none"
    /\ gaps = <<>>
    /\ repair_method = "none"
    /\ repair_env = <<>>
    /\ repaired_geometries = <<>>
    /\ repair_stats = NoStats
    /\ pc = "idle"
    /\ NoChecks /\ NoFiles /\ NoNorm /\ NoSession /\ NoGui /\ NoBatch

\* gaps = checker.check_topology_gaps_optimized(geometries, tolerance, bs)
SessionDetect(bs, e) ==
    /\ calls < MaxCalls
    /\ EnvPossible(geometries, bs, e)
    /\ LET r == CheckTopologyGapsOptimized(geometries, tolerance, bs, e,
                                           self_geometries, spatial_index)
       IN  /\ gaps' = r.result
           /\ path' = r.path
           /\ self_geometries' = r.geometries
           /\ spatial_index' = r.spatial_index
           /\ queried' = QueriedIndex(r, e)
    /\ batch_size' = bs
    /\ env' = e
    /\ calls' = calls + 1
    /\ pc' = "detected"
    /\ UNCHANGED <<geometries, tolerance, repair_method, repair_env,
                   repaired_geometries, repair_stats, checks, files, norm, gui, batch>>

\* geometries, stats = checker.repair_topology_gaps(geometries, gaps, method):
\* the caller goes on with the returned list
SessionRepair(method, outcomes) ==
    /\ calls < MaxCalls
    /\ pc = "detected"
    /\ LET r == RepairTopologyGaps(geometries, gaps, tolerance, method, outcomes)
       IN  /\ geometries' = r.repaired_geometries
           /\ repaired_geometries' = r.repaired_geometries
           /\ repair_stats' = r.repair_stats
    /\ repair_method' = method
    /\ repair_env' = outcomes
    /\ calls' = calls + 1
    /\ pc' = "repaired"
    /\ UNCHANGED <<tolerance, self_geometries, spatial_index, batch_size, env, path, gaps,
                   queried, checks, files, norm, gui, batch>>

NextSession ==
    \/ \E bs \in 1..MaxBatch, e \in DetectEnvs : SessionDetect(bs, e)
    \/ \E method \in RepairMethods :
          \E outcomes \in [1..Len(gaps) -> {"ok", "raise"}] : SessionRepair(method, outcomes)

SpecSession == InitSession /\ [][NextSession]_vars

-----------------------------------------------------------------------------
(* The main window: the check button, the batch repair buttons and the     *)
(* background threads they start.  A click on a disabled button does       *)
(* nothing; the input directory exists and the user confirms the dialogs.  *)

MaxThreads == 3

FixKinds == {"geometry_fix", "gap_fix", "comprehensive_fix"}

RemoveAt(q, k) == SubSeq(q, 1, k - 1) \o SubSeq(q, k + 1, Len(q))

GuiUnchanged ==
    UNCHANGED <<geometries, tolerance, self_geometries, spatial_index, batch_size, env,
                path, gaps, repair_method, repair_env, repaired_geometries, repair_stats,
                pc, checks, files, norm, session, batch>>

InitGui ==
    /\ geometries = <<>>
    /\ tolerance = 4
    /\ self_geometries = <<>>
    /\ spatial_index = <<"None">>
    /\ batch_size = 0
    /\ env = "none"
    /\ path = "none"
    /\ gaps = <<>>
    /\ repair_method = "none"
    /\ repair_env = <<>>
    /\ repaired_geometries = <<>>
    /\ repair_stats = NoStats
    /\ pc = "window"
    /\ NoChecks /\ NoFiles /\ NoNorm /\ NoSession /\ NoGui /\ NoBatch

\* start_check, the command of check_button
StartCheck ==
    /\ check_button = "normal"
    /\ Len(threads) < MaxThreads
    /\ check_button' = "disabled"
    /\ threads' = Append(threads, "check")
    /\ UNCHANGED edit_buttons
    /\ GuiUnchanged

\* the thread of start_check ends: update_results_display (unless run_check
\* raised) and check_completed; create_optimized_edit_buttons destroys the
\* buttons and makes the batch repair buttons again when there is something
\* to edit
CheckEnds(outcome) ==
    /\ \E k \in 1..Len(threads) :
          /\ threads[k] = "check"
          /\ threads' = RemoveAt(threads, k)
    /\ edit_buttons' = IF outcome = "issues" THEN TRUE
                       ELSE IF outcome = "clean" THEN FALSE
                       ELSE edit_buttons
    /\ check_button' = "normal"
    /\ GuiUnchanged

\* fix_geometry_only, fix_gaps_only, comprehensive_fix: the commands of the
\* three batch repair buttons
StartFix(kind) ==
    /\ edit_buttons
    /\ Len(threads) < MaxThreads
    /\ check_button' = "disabled"
    /\ threads' = Append(threads, kind)
    /\ UNCHANGED edit_buttons
    /\ GuiUnchanged

\* geometry_fix_completed, gap_fix_completed, comprehensive_fix_completed
FixEnds(kind) ==
    /\ \E k \in 1..Len(threads) :
          /\ threads[k] = kind
          /\ threads' = RemoveAt(threads, k)
    /\ check_button' = "normal"
    /\ UNCHANGED edit_buttons
    /\ GuiUnchanged

NextGui ==
    \/ StartCheck
    \/ \E outcome \in {"issues", "clean", "error"} : CheckEnds(outcome)
    \/ \E kind \in FixKinds : StartFix(kind)
    \/ \E kind \in FixKinds : FixEnds(kind)

SpecGui == InitGui /\ [][NextGui]_vars

-----------------------------------------------------------------------------
(* Batch repair of a directory: auto_fix_all_geometry_files,               *)
(* auto_fix_all_gaps_files and comprehensive_fix_all_files.  dir_files is  *)
(* the list find_geospatial_files returns, each shapefile as the list of   *)
(* its geometries.  The backup auto_fix_geometry_in_file writes with       *)
(* gdf.to_file(str(file_path) + '.backup') has no extension of a known     *)
(* driver, so it is written as a shapefile folder, whose .shp the next     *)
(* rglob("*.shp") lists.                                                   *)

MaxFiles == 2

BatchFiles == {<<S0, S1>>, <<S0, S1, S2>>, <<B1>>, <<S0>>, <<>>}

RECURSIVE SumSeq(_)
SumSeq(q) == IF q = <<>> THEN 0 ELSE Head(q) + SumSeq(Tail(q))

\* find_geospatial_files: input_dir.rglob("*.shp") lists the shapefiles and the
\* .shp inside every backup folder
FindGeospatialFiles(shapefiles, backups) == shapefiles \o backups

\* {'success': False, 'error': ...}
BatchFailure(fs) == [files |-> fs, backups |-> <<>>, summary |-> [success |-> FALSE],
                     calls |-> <<>>, ops |-> <<>>]

\* the loop of auto_fix_all_geometry_files: the result of each file
GeometryPass(fs, backup_ok) ==
    [i \in 1..Len(fs) |-> AutoFixGeometryInFile(fs[i], <<"absent">>, backup_ok[i])]

\* 1 for a file whose result has success = True
SuccessFlags(pass) == [i \in 1..Len(pass) |-> IF pass[i].result.success THEN 1 ELSE 0]

\* the backups the pass wrote
Written(pass) == SelectSeq(pass, LAMBDA r : r.backup # <<"absent">>)

\* the summary and the effects of auto_fix_all_geometry_files after its loop:
\* files = the shapefiles afterwards, backups = the backups written,
\* calls = the (current, total) pairs handed to progress_callback
GeometrySummary(pass) ==
    [files |-> [i \in 1..Len(pass) |-> pass[i].file],
     backups |-> [k \in 1..Len(Written(pass)) |-> Written(pass)[k].backup[2]],
     summary |-> [success |-> TRUE,
                  total_files |-> Len(pass),
                  successful_files |-> SumSeq(SuccessFlags(pass)),
                  failed_files |-> Len(pass) - SumSeq(SuccessFlags(pass)),
                  total_fixed |-> SumSeq([i \in 1..Len(pass) |->
                      SuccessFlags(pass)[i] * pass[i].result.fixed_count]),
                  total_errors |-> SumSeq([i \in 1..Len(pass) |->
                      SuccessFlags(pass)[i] * pass[i].result.error_count])],
     calls |-> [i \in 1..Len(pass) |-> <<i, Len(pass)>>],
     ops |-> [i \in 1..Len(pass) |-> <<"geometry", i>>]]

\* auto_fix_all_geometry_files
AutoFixAllGeometryFiles(fs, backup_ok) ==
    IF Len(fs) = 0 THEN BatchFailure(fs)
    ELSE CHOOSE r \in {GeometrySummary(pass) : pass \in {GeometryPass(fs, backup_ok)}} : TRUE

\* auto_fix_gaps_in_file(file_path): buffer_merge with the default tolerance;
\* outcome = what the merge of a gap does in this run
AutoFixGapsInFile(f, tol, outcome) ==
    CheckAndRepairGapsInFile(f, <<"absent">>, tol, "buffer_merge",
                             [k \in 1..Len(FileGaps(f, tol)) |-> outcome])

\* the loop of auto_fix_all_gaps_files: the result of each file
GapPass(fs, tol, outcome) ==
    [i \in 1..Len(fs) |-> AutoFixGapsInFile(fs[i], tol, outcome)]

\* `if 'gaps_repaired' in result: repaired_gaps += result['gaps_repaired']`
GapsRepairedOf(result) == IF result.has_gaps_repaired THEN result.gaps_repaired ELSE 0

\* the summary and the effects of auto_fix_all_gaps_files after its loop
GapSummary(pass) ==
    [files |-> [i \in 1..Len(pass) |-> pass[i].file],
     backups |-> <<>>,
     summary |-> [success |-> TRUE,
                  total_files |-> Len(pass),
                  processed_files |-> SumSeq(SuccessFlags(pass)),
                  failed_files |-> Len(pass) - SumSeq(SuccessFlags(pass)),
                  total_gaps |-> SumSeq([i \in 1..Len(pass) |->
                      SuccessFlags(pass)[i] * pass[i].result.gaps_found]),
                  repaired_gaps |-> SumSeq([i \in 1..Len(pass) |->
                      SuccessFlags(pass)[i] * GapsRepairedOf(pass[i].result)]),
                  results |-> [i \in 1..Len(pass) |-> pass[i].result]],
     calls |-> [i \in 1..Len(pass) |-> <<i, Len(pass)>>],
     ops |-> [i \in 1..Len(pass) |-> <<"gap", i>>]]

\* auto_fix_all_gaps_files
AutoFixAllGapsFiles(fs, tol, outcome) ==
    IF Len(fs) = 0 THEN BatchFailure(fs)
    ELSE CHOOSE r \in {GapSummary(pass) : pass \in {GapPass(fs, tol, outcome)}} : TRUE

\* lambda current, total, msg: progress_callback(current, total * 2, ...)
GeometryProgress(call, total_files) == <<call[1], call[2] * 2>>

\* lambda current, total, msg:
\*     progress_callback(current + total_files, total_files * 2, ...)
GapProgress(call, total_files) == <<call[1] + total_files, total_files * 2>>

\* comprehensive_fix_all_files after its two passes
ComprehensiveSummary(total_files, geometry_results, gap_results) ==
    [files |-> gap_results.files,
     backups |-> <<>>,
     summary |-> [success |-> TRUE,
                  total_files |-> total_files,
                  processed_files |-> geometry_results.summary.successful_files,
                  geometry_results |-> geometry_results.summary,
                  gap_results |-> gap_results.summary],
     calls |-> <<<<0, total_files * 2>>>>
               \o [k \in 1..Len(geometry_results.calls) |->
                      GeometryProgress(geometry_results.calls[k], total_files)]
               \o <<<<total_files, total_files * 2>>>>
               \o [k \in 1..Len(gap_results.calls) |->
                      GapProgress(gap_results.calls[k], total_files)],
     ops |-> geometry_results.ops \o gap_results.ops]

\* comprehensive_fix_all_files: the gap pass lists the directory again
ComprehensiveFixAllFiles(fs, tol, backup_ok, outcome) ==
    IF Len(fs) = 0 THEN BatchFailure(fs)
    ELSE CHOOSE r \in
             {ComprehensiveSummary(Len(fs), geometry_results, gap_results) :
                 geometry_results \in {AutoFixAllGeometryFiles(fs, backup_ok)},
                 gap_results \in
                     {AutoFixAllGapsFiles(FindGeospatialFiles(g.files, g.backups),
                                          tol, outcome) :
                         g \in {AutoFixAllGeometryFiles(fs, backup_ok)}}} : TRUE

BatchUnchanged ==
    UNCHANGED <<geometries, tolerance, self_geometries, spatial_index, batch_size, env,
                path, gaps, repair_method, repair_env, repaired_geometries, repair_stats,
                checks, files, norm, session, gui>>

InitBatch ==
    /\ dir_files \in SeqsUpTo(BatchFiles, MaxFiles)
    /\ summary = NoSummary
    /\ progress = <<>>
    /\ ops = <<>>
    /\ geometries = <<>>
    /\ tolerance = 4
    /\ self_geometries = <<>>
    /\ spatial_index = <<"None">>
    /\ batch_size = 0
    /\ env = "none"
    /\ path = "none"
    /\ gaps = <<>>
    /\ repair_method = "none"
    /\ repair_env = <<>>
    /\ repaired_geometries = <<>>
    /\ repair_stats = NoStats
    /\ pc = "batch_ready"
    /\ NoChecks /\ NoFiles /\ NoNorm /\ NoSession /\ NoGui

\* fix_results = inspector.auto_fix_all_gaps_files(progress_callback=...)
FixAllGaps(outcome) ==
    /\ pc = "batch_ready"
    /\ \E r \in {AutoFixAllGapsFiles(dir_files, tolerance, outcome)} :
           /\ dir_files' = r.files
           /\ summary' = r.summary
           /\ progress' = r.calls
           /\ ops' = r.ops
    /\ pc' = "gaps_fixed"
    /\ BatchUnchanged

\* fix_results = inspector.comprehensive_fix_all_files(progress_callback=...)
FixComprehensive(backup_ok, outcome) ==
    /\ pc = "batch_ready"
    /\ \E r \in {ComprehensiveFixAllFiles(dir_files, tolerance, backup_ok, outcome)} :
           /\ dir_files' = r.files
           /\ summary' = r.summary
           /\ progress' = r.calls
           /\ ops' = r.ops
    /\ pc' = "comprehensive_fixed"
    /\ BatchUnchanged

NextBatch ==
    \/ \E outcome \in {"ok", "raise"} : FixAllGaps(outcome)
    \/ \E backup_ok \in [1..Len(dir_files) -> BOOLEAN], outcome \in {"ok", "raise"} :
          FixComprehensive(backup_ok, outcome)

SpecBatch == InitBatch /\ [][NextBatch]_vars

-----------------------------------------------------------------------------
(* Properties of gap detection (specification Spec) *)

Positions(geoms) == 0..(Len(geoms) - 1)
PairSet(gs) == {<<gs[k].feature1, gs[k].feature2>> : k \in 1..Len(gs)}
NoNullOrEmpty(geoms) == \A k \in 1..Len(geoms) : ~IsNullOrEmpty(geoms[k])
Distinct(geoms) == \A k, l \in 1..Len(geoms) : k # l => geoms[k] # geoms[l]
SameChunk(i, j, bs) == i \div bs = j \div bs

\* C1: every returned gap record, on the indexed, the batch and the
\* brute-force path, has a distance strictly between 0 and the tolerance and
\* belongs to a pair for which _are_adjacent returns true.
C1_EveryRecordConfirmed ==
    pc = "detected" =>
        \A k \in 1..Len(gaps) :
            /\ 0 < gaps[k].distance2 /\ gaps[k].distance2 < Sq(tolerance)
            /\ AreAdjacent(gaps[k].geometry1, gaps[k].geometry2, tolerance,
                           env = "adjacent_raises")

\* C2: a pair of geometries is reported only when its own distance d has
\* 0 < d < tolerance, both bounds strict; three squares 2 apart at tolerance
\* 4 give exactly the two neighbouring pairs and not the outer pair.
C2_OnlyOwnDistance ==
    pc = "detected" =>
        /\ \A k \in 1..Len(gaps) :
              LET d2 == Dist2(gaps[k].geometry1, gaps[k].geometry2)
              IN  d2 # 0 /\ d2 # Sq(tolerance) /\ ~(d2 > Sq(tolerance))
        /\ (geometries = <<S0, S1, S2>> /\ tolerance = 4 /\ path # "batch")
              => (PairSet(gaps) = {<<0, 1>>, <<1, 2>>} /\ Len(gaps) = 2)

\* C2 witness: the three squares were checked in one indexed pass and two
\* gaps came back.
C2_Witness ==
    /\ pc = "detected" /\ path = "indexed"
    /\ geometries = <<S0, S1, S2>> /\ tolerance = 4
    /\ Len(gaps) = 2

\* C3: feature1 and feature2 of every gap record are the positions of the
\* record's two geometries in the list that was passed to the call, also
\* when None or empty geometries come earlier in that list.
C3_PositionsOfInputList ==
    pc = "detected" =>
        \A k \in 1..Len(gaps) :
            /\ gaps[k].feature1 \in Positions(geometries)
            /\ gaps[k].feature2 \in Positions(geometries)
            /\ geometries[gaps[k].feature1 + 1] = gaps[k].geometry1
            /\ geometries[gaps[k].feature2 + 1] = gaps[k].geometry2

\* the pairs an all-pairs scan with both conditions reports
ConfirmedPairs(geoms, tol, adjRaises) ==
    {p \in Positions(geoms) \X Positions(geoms) :
        /\ p[1] < p[2]
        /\ 0 < Dist2(geoms[p[1] + 1], geoms[p[2] + 1])
        /\ Dist2(geoms[p[1] + 1], geoms[p[2] + 1]) < Sq(tol)
        /\ AreAdjacent(geoms[p[1] + 1], geoms[p[2] + 1], tol, adjRaises)}

\* C4: for at most batch_size geometries, none of them None or empty and no
\* two equal, the indexed pass reports exactly the pairs (i, j), i < j, with
\* 0 < distance < tolerance and adjacency confirmed: the index query drops
\* none of them and adds no other.
C4_IndexedEqualsAllPairs ==
    (pc = "detected" /\ path = "indexed" /\ NoNullOrEmpty(geometries) /\ Distinct(geometries))
        => /\ PairSet(gaps) = ConfirmedPairs(geometries, tolerance, env = "adjacent_raises")
           /\ Len(gaps) = Cardinality(PairSet(gaps))

\* C4 witness: an indexed pass over distinct geometries that reported a gap
\* for a pair 0 < distance apart, and whose index query also returned a
\* candidate behind the queried geometry that is no gap.
C4_Witness ==
    /\ pc = "detected" /\ path = "indexed" /\ env = "none"
    /\ NoNullOrEmpty(geometries) /\ Distinct(geometries)
    /\ gaps # <<>>
    /\ \E i, j \in Positions(geometries) :
          /\ i < j /\ <<i, j>> \notin PairSet(gaps)
          /\ Intersects(geometries[j + 1], Buffer(geometries[i + 1], 2 * tolerance))

\* C5: no unordered pair of positions appears twice in one returned list and
\* every record has feature1 < feature2, also when equal geometries stand
\* at different positions.
C5_NoPairTwice ==
    pc = "detected" =>
        /\ \A k \in 1..Len(gaps) : gaps[k].feature1 < gaps[k].feature2
        /\ \A k, l \in 1..Len(gaps) :
              k # l => {gaps[k].feature1, gaps[k].feature2}
                         # {gaps[l].feature1, gaps[l].feature2}

\* C6: the batch path is taken exactly when len(geometries) > batch_size; it
\* cuts the list into contiguous chunks of batch_size that cover every
\* position once, and every record found in a chunk carries feature1 and
\* feature2 raised by the chunk's start, so that they name the record's two
\* geometries in the original list.
C6_ChunksAndOffsets ==
    pc = "detected" =>
        /\ (path = "batch") = (Len(geometries) > batch_size)
        /\ path = "batch" =>
              /\ \A k \in 1..Len(gaps) :
                    /\ gaps[k].feature1 \in Positions(geometries)
                    /\ gaps[k].feature2 \in Positions(geometries)
                    /\ geometries[gaps[k].feature1 + 1] = gaps[k].geometry1
                    /\ geometries[gaps[k].feature2 + 1] = gaps[k].geometry2
              /\ PairSet(gaps) =
                    {p \in Positions(geometries) \X Positions(geometries) :
                        /\ p[1] < p[2]
                        /\ SameChunk(p[1], p[2], batch_size)
                        /\ ~IsNullOrEmpty(geometries[p[1] + 1])
                        /\ ~IsNullOrEmpty(geometries[p[2] + 1])
                        /\ 0 < Dist2(geometries[p[1] + 1], geometries[p[2] + 1])
                        /\ Dist2(geometries[p[1] + 1], geometries[p[2] + 1]) < Sq(tolerance)}

\* C6 witness: a gap found in a chunk that does not start at position 0.
C6_Witness ==
    /\ pc = "detected" /\ path = "batch"
    /\ \E k \in 1..Len(gaps) : gaps[k].feature1 >= batch_size

\* is some pair with 0 < distance < tolerance cut by a chunk boundary
Straddles(geoms, tol, bs) ==
    \E i, j \in Positions(geoms) :
        /\ i < j /\ ~SameChunk(i, j, bs)
        /\ ~IsNullOrEmpty(geoms[i + 1]) /\ ~IsNullOrEmpty(geoms[j + 1])
        /\ 0 < Dist2(geoms[i + 1], geoms[j + 1])
        /\ Dist2(geoms[i + 1], geoms[j + 1]) < Sq(tol)

\* the same collection checked in one pass (batch_size = its length)
SinglePass(geoms, tol) ==
    CheckTopologyGapsOptimized(geoms, tol, Len(geoms), "none", <<>>, <<"None">>).result

\* C7: when no gap pair straddles a chunk boundary, the chunked run returns
\* the same set of gap pairs, and the same number of gaps, as a single pass
\* over the same collection.
C7_ChunkedEqualsSinglePass ==
    (pc = "detected" /\ path = "batch" /\ ~Straddles(geometries, tolerance, batch_size))
        => /\ PairSet(gaps) = PairSet(SinglePass(geometries, tolerance))
           /\ Len(gaps) = Len(SinglePass(geometries, tolerance))

-----------------------------------------------------------------------------
(* Properties of gap repair (specification SpecRepair) *)

Returned == pc \in {"repaired", "raised"}

\* C8: after every repair call, whatever the method and the gap list,
\* repaired_count + failed_count = len(gaps).
C8_CountsAddUp ==
    pc = "repaired" =>
        repair_stats.repaired_count + repair_stats.failed_count = Len(gaps)

\* C8 witness: a call with one of the three methods on two gaps, one of
\* which was repaired and one of which failed.
C8_Witness ==
    /\ pc = "repaired" /\ repair_method \in RepairMethods
    /\ Len(gaps) = 2
    /\ repair_stats.repaired_count = 1 /\ repair_stats.failed_count = 1

\* C9: after a repair call with one of the three methods the statistics hold
\* a details list with one entry per gap, on every branch.
C9_OneDetailPerGap ==
    (pc = "repaired" /\ repair_method \in RepairMethods /\ gaps # <<>>)
        => /\ repair_stats.has_details
           /\ Len(repair_stats.details) = Len(gaps)

\* C10: a repair call with a non-empty gap list and a method name that is
\* none of the three raises to the caller; it does not return statistics.
C10_UnknownMethodRaises ==
    (Returned /\ gaps # <<>> /\ repair_method \notin RepairMethods)
        => pc = "raised"

-----------------------------------------------------------------------------
(* Frame and failure properties of gap repair (specification SpecRepair) *)

MergeMethods == {"buffer_merge", "extend_boundary"}

\* the positions of the caller's list (1-based) that gap k names
PosSet(k) ==
    {Pos(geometries, i) : i \in {j \in {gaps[k].feature1, gaps[k].feature2} :
                                     InRange(geometries, j)}}

\* the k-th gap was repaired by a merge method (its details entry says so)
Succeeded(k) == repair_stats.details[k].success

MergeCall == pc = "repaired" /\ repair_method \in MergeMethods /\ gaps # <<>>

\* the list has its length and every position that no repaired gap names
\* holds what it held
MergeFrame ==
    /\ Len(repaired_geometries) = Len(geometries)
    /\ \A p \in 1..Len(geometries) :
          (\A k \in 1..Len(gaps) : Succeeded(k) => p \notin PosSet(k))
              => repaired_geometries[p] = geometries[p]

\* C11 as stated: for each gap repaired by buffer_merge or extend_boundary
\* the returned list holds the merged geometry at feature1 and None at
\* feature2, has the length of the input list, and is unchanged elsewhere.
C11_MergedAtFeature1 ==
    MergeCall =>
        /\ MergeFrame
        /\ \A k \in 1..Len(gaps) :
              Succeeded(k) =>
                  /\ repaired_geometries[Pos(geometries, gaps[k].feature1)].made = "merged"
                  /\ IsNone(repaired_geometries[Pos(geometries, gaps[k].feature2)])

\* a later repaired gap names position p as its feature2
NulledLater(k, p) ==
    \E l \in (k + 1)..Len(gaps) :
        Succeeded(l) /\ Pos(geometries, gaps[l].feature2) = p

MergeRadius(gap) ==
    IF repair_method = "buffer_merge" THEN tolerance \div 2
    ELSE ExtensionDistance(gap, tolerance)

\* C11 amended: for each repaired gap the returned list holds None at
\* feature2 and, when feature1 is another position that no later repaired gap
\* of the call names as its feature2, a merged geometry at feature1 (for a
\* single gap: the union of the two buffered inputs); the list keeps its
\* length and is unchanged at every position that no repaired gap names.
C11_MergedUnlessNulledLater ==
    MergeCall =>
        /\ MergeFrame
        /\ \A k \in 1..Len(gaps) :
              LET p1 == Pos(geometries, gaps[k].feature1)
                  p2 == Pos(geometries, gaps[k].feature2)
              IN  Succeeded(k) =>
                      /\ IsNone(repaired_geometries[p2])
                      /\ (p1 # p2 /\ ~NulledLater(k, p1))
                            => repaired_geometries[p1].made = "merged"
                      /\ (p1 # p2 /\ Len(gaps) = 1) =>
                            repaired_geometries[p1] =
                                MergedGeometry(Buffer(geometries[p1], MergeRadius(gaps[k])),
                                               Buffer(geometries[p2], MergeRadius(gaps[k])))

\* C11 witness: two gaps with the same feature1 were both repaired by a
\* merge method.
C11_Witness ==
    /\ MergeCall /\ Len(gaps) = 2
    /\ Succeeded(1) /\ Succeeded(2)
    /\ gaps[1].feature1 = gaps[2].feature1
    /\ gaps[1].feature1 # gaps[1].feature2

\* gap k names two existing positions that no other gap of the list names,
\* neither holds None, and the library mends it
Clean(k) ==
    /\ InRange(geometries, gaps[k].feature1) /\ InRange(geometries, gaps[k].feature2)
    /\ \A p \in PosSet(k) : ~IsNone(geometries[p])
    /\ \A l \in 1..Len(gaps) : l # k => PosSet(l) \cap PosSet(k) = {}
    /\ repair_env[k] \in {"ok", "fixable"}

\* C12: a gap whose repair raises is counted in failed_count and does not
\* stop the run: the call returns normally and every other gap is still
\* attempted, so each gap that can be repaired on its own is repaired.
C12_RaiseDoesNotStopRun ==
    (Returned /\ repair_method \in RepairMethods /\ gaps # <<>>) =>
        /\ pc = "repaired"
        /\ repair_stats.failed_count
              >= Cardinality({k \in 1..Len(gaps) : repair_env[k] = "raise"})
        /\ repair_stats.repaired_count >= Cardinality({k \in 1..Len(gaps) : Clean(k)})

\* C12 witness: the first of two gaps raised and the second was repaired.
C12_Witness ==
    /\ pc = "repaired" /\ repair_method \in RepairMethods
    /\ Len(gaps) = 2 /\ repair_env[1] = "raise" /\ Clean(2)
    /\ repair_stats.failed_count = 1 /\ repair_stats.repaired_count = 1

\* the snap of gap k fails: a position does not exist or holds None, the
\* library raises, or the snapped geometries stay invalid
SnapFails(k) ==
    \/ ~InRange(geometries, gaps[k].feature1) \/ ~InRange(geometries, gaps[k].feature2)
    \/ \E p \in PosSet(k) : IsNone(geometries[p])
    \/ repair_env[k] \in {"unfixable", "raise"}

\* C13: in snap_vertices repair a gap that fails is counted as failed and
\* leaves both its positions as they were; a gap that succeeds replaces both.
C13_SnapBothOrNeither ==
    (pc = "repaired" /\ repair_method = "snap_vertices" /\ gaps # <<>>) =>
        /\ repair_stats.failed_count = Cardinality({k \in 1..Len(gaps) : SnapFails(k)})
        /\ \A p \in 1..Len(geometries) :
              (\A k \in 1..Len(gaps) : p \in PosSet(k) => SnapFails(k))
                  => repaired_geometries[p] = geometries[p]
        /\ \A k \in 1..Len(gaps) :
              LET p1 == Pos(geometries, gaps[k].feature1)
                  p2 == Pos(geometries, gaps[k].feature2)
                  mend(g) == IF repair_env[k] = "fixable" THEN MakeValid(g) ELSE g
              IN  (~SnapFails(k) /\ p1 # p2
                     /\ \A l \in 1..Len(gaps) : l # k => PosSet(l) \cap PosSet(k) = {})
                  => /\ repaired_geometries[p1]
                          = mend(Snap(geometries[p1], geometries[p2], tolerance))
                     /\ repaired_geometries[p2]
                          = mend(Snap(geometries[p2], geometries[p1], tolerance))

\* C13 witness: a snap gap between two existing geometries failed because
\* the snapped geometries could not be made valid, next to one that succeeded.
C13_Witness ==
    /\ pc = "repaired" /\ repair_method = "snap_vertices" /\ Len(gaps) = 2
    /\ repair_env[1] = "unfixable" /\ PosSet(1) = {1, 2}
    /\ \A p \in PosSet(1) : ~IsNone(geometries[p])
    /\ repair_stats.failed_count = 1 /\ repair_stats.repaired_count = 1

-----------------------------------------------------------------------------
(* Fallback and adjacency failure of gap detection (specification Spec) *)

\* the pairs of positions of the list, both holding a geometry, that are
\* more than 0 and less than the tolerance apart
RangePairs(geoms, tol) ==
    {p \in Positions(geoms) \X Positions(geoms) :
        /\ p[1] < p[2]
        /\ ~IsNullOrEmpty(geoms[p[1] + 1]) /\ ~IsNullOrEmpty(geoms[p[2] + 1])
        /\ 0 < Dist2(geoms[p[1] + 1], geoms[p[2] + 1])
        /\ Dist2(geoms[p[1] + 1], geoms[p[2] + 1]) < Sq(tol)}

\* C14: when the index build fails or an exception escapes the indexed loop,
\* the call returns the brute-force all-pairs result on the same list and
\* tolerance: one record per pair in range, at the positions of the input
\* list, and no record of the aborted indexed pass.
C14_FallbackIsBruteForce ==
    (pc = "detected" /\ env \in {"build_fails", "loop_raises"}) =>
        /\ path = "brute"
        /\ PairSet(gaps) = RangePairs(geometries, tolerance)
        /\ Len(gaps) = Cardinality(PairSet(gaps))
        /\ \A k \in 1..Len(gaps) :
              /\ gaps[k].geometry1 = geometries[gaps[k].feature1 + 1]
              /\ gaps[k].geometry2 = geometries[gaps[k].feature2 + 1]
              /\ gaps[k].distance2 = Dist2(gaps[k].geometry1, gaps[k].geometry2)

\* C14 witness: the indexed loop raised on a list that starts with None, and
\* the gap came back at positions the indexed pass does not use.
C14_Witness ==
    /\ pc = "detected" /\ env = "loop_raises" /\ path = "brute"
    /\ IsNone(geometries[1])
    /\ \E k \in 1..Len(gaps) : gaps[k].feature2 = Len(Filter(geometries))

\* C15: when a geometric operation of _are_adjacent raises, the pair counts
\* as adjacent: every two geometries of the list more than 0 and less than
\* the tolerance apart are reported by the indexed pass.
C15_RaisingAdjacencyEmits ==
    (pc = "detected" /\ env = "adjacent_raises") =>
        /\ path = "indexed"
        /\ \A p \in RangePairs(geometries, tolerance) :
              \E k \in 1..Len(gaps) :
                  {gaps[k].geometry1, gaps[k].geometry2}
                      = {geometries[p[1] + 1], geometries[p[2] + 1]}

\* C15 witness: a reported pair that the adjacency test would have rejected
\* had it not raised.
C15_Witness ==
    /\ pc = "detected" /\ env = "adjacent_raises"
    /\ \E k \in 1..Len(gaps) :
          ~AreAdjacent(gaps[k].geometry1, gaps[k].geometry2, tolerance, FALSE)

-----------------------------------------------------------------------------
(* Properties of the validity check (specification SpecValidity) *)

\* the positions named by a list of positions or of issue records
Elems(q) == {q[k] : k \in 1..Len(q)}
Features(q) == {q[k].feature : k \in 1..Len(q)}

\* the call that has just returned ran in the given mode
JustChecked(af) == pc' = "checked" /\ runs' = runs + 1 /\ auto_fix' = af

\* C16: check_geometry_validity with auto_fix = false changes no element of
\* the list it is given.
C16_DetectionChangesNothing ==
    [][JustChecked(FALSE) => (geometries' = geometries /\ fixed_geometries' = <<>>)]_vars

\* C16 witness: a detection run reported a geometry that make_valid mends.
C16_Witness ==
    /\ pc = "checked" /\ ~auto_fix
    /\ \E k \in 1..Len(invalid_geometries) : invalid_geometries[k].severity = "fixable"

\* an invalid geometry whose repaired form is valid
Repairable(g) ==
    /\ ~IsNullOrEmpty(g) /\ ~IsValid(g)
    /\ ~MakeValidRaises(g) /\ IsValid(MakeValid(g))

\* C17: with auto_fix = true the fixed list names exactly the replaced
\* positions: i is in it iff the geometry at i was invalid and its repaired
\* form is valid, position i then holds the repaired geometry, and no other
\* position is changed.
C17_FixedListIsReplacedPositions ==
    [][JustChecked(TRUE) =>
          /\ Len(geometries') = Len(geometries)
          /\ Len(fixed_geometries') = Cardinality(Elems(fixed_geometries'))
          /\ \A i \in Positions(geometries) :
                /\ i \in Elems(fixed_geometries') <=> Repairable(geometries[i + 1])
                /\ i \in Elems(fixed_geometries')
                      => geometries'[i + 1] = MakeValid(geometries[i + 1])
                /\ i \notin Elems(fixed_geometries')
                      => geometries'[i + 1] = geometries[i + 1]]_vars

\* C17 witness: an auto-fix run replaced a geometry and left an invalid one
\* that cannot be repaired.
C17_Witness ==
    /\ pc = "checked" /\ auto_fix /\ fixed_geometries # <<>>
    /\ \E i \in Positions(geometries) :
          /\ geometries[i + 1].validity = "unfixable"
          /\ i \notin Elems(fixed_geometries)
    /\ \A k \in 1..Len(fixed_geometries) :
          geometries[fixed_geometries[k] + 1].made = "made_valid"

\* C18: a repair attempt that raises is caught: the feature is reported with
\* severity critical and keeps its geometry, the features after it are still
\* classified, and the call returns, in both modes.
C18_RaisingRepairIsReported ==
    [][(pc' = "checked" /\ runs' = runs + 1) =>
          \A i \in Positions(geometries) :
              LET g == geometries[i + 1]
              IN  /\ (~IsNullOrEmpty(g) /\ MakeValidRaises(g)) =>
                        /\ geometries'[i + 1] = g
                        /\ IssueRecord(i, "critical") \in Elems(invalid_geometries')
                  /\ (IsNullOrEmpty(g) \/ ~IsValid(g)) =>
                        (i \in Features(invalid_geometries') \/ i \in Elems(fixed_geometries'))]_vars

\* C18 witness: a feature after a raising one was repaired in the same run.
C18_Witness ==
    /\ pc = "checked" /\ auto_fix
    /\ \E i, j \in Positions(geometries) :
          /\ i < j
          /\ geometries[i + 1].validity = "raises"
          /\ IssueRecord(i, "critical") \in Elems(invalid_geometries)
          /\ j \in Elems(fixed_geometries)

\* C19: an auto-fix run that follows an auto-fix run on the same list
\* replaces nothing, and no run changes a geometry that is valid.
C19_SecondRunReplacesNothing ==
    [][/\ (pc = "checked" /\ auto_fix /\ JustChecked(TRUE))
            => (fixed_geometries' = <<>> /\ geometries' = geometries)
       /\ (pc' = "checked" /\ runs' = runs + 1)
            => \A i \in Positions(geometries) :
                  (~IsNullOrEmpty(geometries[i + 1]) /\ IsValid(geometries[i + 1]))
                      => geometries'[i + 1] = geometries[i + 1]]_vars

\* C19 witness: the second of two auto-fix runs found nothing to replace in
\* a list that holds a geometry the first run repaired.
C19_Witness ==
    /\ pc = "checked" /\ auto_fix /\ runs = 2 /\ fixed_geometries = <<>>
    /\ \E i \in Positions(geometries) : geometries[i + 1].made = "made_valid"

-----------------------------------------------------------------------------
(* Properties of the overlap check (specification SpecOverlap) *)

\* the pairs of positions, both holding a geometry, that overlap in an area
\* larger than the tolerance
OverlapPairs(geoms, tol) ==
    {p \in Positions(geoms) \X Positions(geoms) :
        /\ p[1] < p[2]
        /\ ~IsNullOrEmpty(geoms[p[1] + 1]) /\ ~IsNullOrEmpty(geoms[p[2] + 1])
        /\ Overlaps(geoms[p[1] + 1], geoms[p[2] + 1])
        /\ Area(Intersection(geoms[p[1] + 1], geoms[p[2] + 1])) > tol}

\* C20: check_topology_overlaps returns exactly one record, feature1 <
\* feature2, for each pair of geometries that overlap in an area larger than
\* the tolerance, and none for any other pair: none when one geometry
\* contains or equals the other, none when the area is the tolerance or less.
C20_OverlapRecords ==
    pc = "overlaps_checked" =>
        /\ PairSet(overlaps) = OverlapPairs(geometries, tolerance)
        /\ Len(overlaps) = Cardinality(PairSet(overlaps))
        /\ \A k \in 1..Len(overlaps) :
              LET g == geometries[overlaps[k].feature1 + 1]
                  h == geometries[overlaps[k].feature2 + 1]
              IN  /\ overlaps[k].feature1 < overlaps[k].feature2
                  /\ g # h
                  /\ ~(h.x1 >= g.x1 /\ h.x2 <= g.x2 /\ h.y1 >= g.y1 /\ h.y2 <= g.y2)
                  /\ ~(g.x1 >= h.x1 /\ g.x2 <= h.x2 /\ g.y1 >= h.y1 /\ g.y2 <= h.y2)
                  /\ overlaps[k].overlap_area > tolerance
                  /\ overlaps[k].overlap_area
                        = (Min2(g.x2, h.x2) - Max2(g.x1, h.x1))
                              * (Min2(g.y2, h.y2) - Max2(g.y1, h.y1))
        /\ (geometries = <<S0, O1, N1, S0>> /\ tolerance = 2)
              => PairSet(overlaps) = {<<0, 1>>, <<1, 3>>}
        /\ (geometries = <<S0, P4, O1>> /\ tolerance = 4)
              => PairSet(overlaps) = {<<0, 2>>, <<1, 2>>}

\* C20 witness: a record was returned for one pair, and none for a pair
\* that overlaps in an area equal to the tolerance nor for a pair of which
\* one geometry contains the other.
C20_Witness ==
    /\ pc = "overlaps_checked" /\ overlaps # <<>>
    /\ \E i, j \in Positions(geometries) :
          /\ i < j /\ <<i, j>> \notin PairSet(overlaps)
          /\ Overlaps(geometries[i + 1], geometries[j + 1])
          /\ Area(Intersection(geometries[i + 1], geometries[j + 1])) = tolerance
    /\ \E i, j \in Positions(geometries) :
          /\ i < j /\ <<i, j>> \notin PairSet(overlaps)
          /\ geometries[i + 1] = S0 /\ geometries[j + 1] = N1

-----------------------------------------------------------------------------
(* Order of the gap list (specification Spec) *)

\* C21: on every path the gap list is ordered by feature1 ascending and,
\* among records with the same feature1, by feature2 ascending.
C21_FeatureIndexOrder ==
    pc = "detected" =>
        \A k, l \in 1..Len(gaps) :
            k < l =>
                \/ gaps[k].feature1 < gaps[l].feature1
                \/ /\ gaps[k].feature1 = gaps[l].feature1
                   /\ gaps[k].feature2 <= gaps[l].feature2

-----------------------------------------------------------------------------
(* Backup before repair (specification SpecFile) *)

\* C22: whenever a repair overwrites the source file, the backup file exists
\* afterwards and holds the content the source file had before the repair.
C22_BackupHoldsOriginal ==
    [][file' # file => backup' = <<"file", file>>]_vars

-----------------------------------------------------------------------------
(* Properties of the geometry-type normalizer (specification SpecNormalize) *)

PartSet(geom) == {geom.parts[k] : k \in 1..Len(geom.parts)}

\* C23: a multi-polygon is mapped to its part of largest area (by both
\* normalizers), a multi-line to its longest part and a multi-point to its
\* first point; parts of area 1, 5, 2 give the part of area 5; the result is
\* one of the input's parts, unchanged.
C23_LargestPartOfMulti ==
    (pc \in {"normalized", "converted"} /\ multi.parts # <<>>) =>
        /\ multi.kind = "MultiPolygon" =>
              /\ normalized \in PartSet(multi)
              /\ \A p \in PartSet(multi) : Area(p) <= Area(normalized)
        /\ (multi.kind = "MultiLineString" /\ pc = "normalized") =>
              /\ normalized \in PartSet(multi)
              /\ \A p \in PartSet(multi) : Length(p) <= Length(normalized)
        /\ (multi.kind = "MultiPoint" /\ pc = "normalized") =>
              normalized = multi.parts[1]
        /\ multi = Multi("MultiPolygon", <<A1, A5, A2>>) => normalized = A5

\* C23 witness: the multi-polygon with parts of area 1, 5, 2 was normalized
\* to the part of area 5.
C23_Witness ==
    /\ pc = "normalized"
    /\ multi = Multi("MultiPolygon", <<A1, A5, A2>>)
    /\ normalized = A5

\* C24: a geometry collection is mapped to one of its parts, the one of
\* largest area when its parts are polygons and the longest one when its
\* parts are lines, and is returned unchanged when reading its parts fails.
C24_LargestPartOfCollection ==
    (pc = "normalized" /\ multi.kind = "GeometryCollection" /\ multi.parts # <<>>) =>
        IF env = "parts_raise" THEN normalized = multi
        ELSE /\ normalized \in PartSet(multi)
             /\ (\A p \in PartSet(multi) : p.kind = "Polygon")
                   => \A p \in PartSet(multi) : Area(p) <= Area(normalized)
             /\ (\A p \in PartSet(multi) : p.kind = "LineString")
                   => \A p \in PartSet(multi) : Length(p) <= Length(normalized)

-----------------------------------------------------------------------------
(* Freshness of the spatial index (specification SpecSession) *)

\* C25: in any sequence of detection and repair calls on one checker, the
\* index a detection call queries was built during that call from the list
\* passed to it, and the call returns what a new checker returns for that
\* list; an index of an earlier call is never queried.
C25_IndexBuiltInSameCall ==
    pc = "detected" =>
        /\ ~IndexIsNone(queried) =>
              /\ queried = <<"STRtree", Filter(geometries)>>
              /\ self_geometries = Filter(geometries)
        /\ gaps = CheckTopologyGapsOptimized(geometries, tolerance, batch_size, env,
                                             <<>>, <<"None">>).result

\* C25 witness: the third call is an indexed detection on a list that a
\* repair has changed, on a checker that held an index of the list before
\* the repair.
C25_Witness ==
    /\ pc = "detected" /\ calls = 3 /\ path = "indexed"
    /\ \E k \in 1..Len(geometries) : geometries[k].made = "merged"
    /\ queried = <<"STRtree", Filter(geometries)>>

-----------------------------------------------------------------------------
(* Chains of gaps and the caller's list (specification SpecRepair) *)

\* an earlier repaired gap has set a position that gap k names to None
NulledBefore(k) ==
    \E l \in 1..(k - 1) :
        Succeeded(l) /\ Pos(geometries, gaps[l].feature2) \in PosSet(k)

\* C26: in buffer_merge and extend_boundary repair a gap that names a
\* position which an earlier gap of the call has set to None is counted as
\* failed and changes no geometry; of the chain (0, 1), (1, 2) the first gap
\* is repaired and the second is not.
C26_NulledPositionFailsLaterGaps ==
    MergeCall =>
        /\ \A k \in 1..Len(gaps) : NulledBefore(k) => ~Succeeded(k)
        /\ repair_stats.failed_count
              = Cardinality({k \in 1..Len(gaps) : ~Succeeded(k)})
        /\ \A p \in 1..Len(geometries) :
              (\A k \in 1..Len(gaps) : p \in PosSet(k) => ~Succeeded(k))
                  => repaired_geometries[p] = geometries[p]
        /\ (geometries = <<S0, S1, S2>> /\ PairSet(gaps) = {<<0, 1>>, <<1, 2>>}
              /\ Len(gaps) = 2 /\ gaps[1].feature1 = 0 /\ repair_env = <<"ok", "ok">>)
              => /\ Succeeded(1) /\ ~Succeeded(2)
                 /\ IsNone(repaired_geometries[2])
                 /\ repaired_geometries[3] = S2

\* C26 witness: the chain (0, 1), (1, 2) was repaired on three squares and
\* the library raised for neither gap.
C26_Witness ==
    /\ MergeCall /\ geometries = <<S0, S1, S2>>
    /\ Len(gaps) = 2 /\ repair_env = <<"ok", "ok">>
    /\ gaps[1].feature1 = 0 /\ gaps[1].feature2 = 1
    /\ gaps[2].feature1 = 1 /\ gaps[2].feature2 = 2
    /\ repair_stats.repaired_count = 1 /\ repair_stats.failed_count = 1

\* C27: repair_topology_gaps leaves the caller's list as it was, for every
\* method, when a gap fails, for an unknown method and for an empty gap list.
C27_CallerListUnchanged ==
    [][pc' \in {"repaired", "raised"} => geometries' = geometries]_vars

\* C27 witness: a call returned a list that differs from the caller's.
C27_Witness ==
    /\ pc = "repaired" /\ repair_method \in RepairMethods
    /\ repaired_geometries # geometries
    /\ repair_stats.repaired_count > 0 /\ repair_stats.failed_count > 0

-----------------------------------------------------------------------------
(* Background runs of the main window (specification SpecGui) *)

\* C28: at most one background check or repair run is active at a time.
C28_OneRunAtATime == Len(threads) <= 1

-----------------------------------------------------------------------------
(* Batch repair of a directory (specification SpecBatch) *)

RepairedCounts(results) ==
    SumSeq([i \in 1..Len(results) |->
               IF results[i].success THEN results[i].repaired_count ELSE 0])

GapsFound(results) ==
    SumSeq([i \in 1..Len(results) |->
               IF results[i].success THEN results[i].gaps_found ELSE 0])

\* C29: the summary of auto_fix_all_gaps_files reports as repaired_gaps the
\* sum of the repaired_count of the successfully processed files, and as
\* total_gaps the sum of their gaps_found.
C29_SummarySumsRepairedCount ==
    (pc = "gaps_fixed" /\ summary.success) =>
        /\ summary.repaired_gaps = RepairedCounts(summary.results)
        /\ summary.total_gaps = GapsFound(summary.results)

\* C30: in comprehensive_fix_all_files every geometry repair comes before
\* every gap repair, the gap pass runs over the files whatever the geometry
\* pass did, and the progress pairs have the constant total 2 x total_files
\* and a current that never decreases, never exceeds the total and equals
\* the total at the last file of the gap pass.
C30_PassOrderAndProgress ==
    (pc = "comprehensive_fixed" /\ summary.success) =>
        /\ \A i, j \in 1..Len(ops) : (i < j /\ ops[i][1] = "gap") => ops[j][1] = "gap"
        /\ \E i \in 1..Len(ops) : ops[i][1] = "gap"
        /\ \A k \in 1..Len(progress) :
              /\ progress[k][2] = 2 * summary.total_files
              /\ progress[k][1] <= progress[k][2]
              /\ k > 1 => progress[k - 1][1] <= progress[k][1]
        /\ progress[Len(progress)][1] = progress[Len(progress)][2]

=============================================================================
